---- MODULE Spec2Model ----
(***************************************************************************)
(* A model of gdt-dev/kube: the evaluation of one Kubernetes test step.    *)
(*                                                                         *)
(*   Spec      Spec.Eval of eval.go: connect, ensureNamespace, Action.Do   *)
(*             and the staged assertions.OK of assertions.go, run by a     *)
(*             scenario runner that consults Spec.Retry.                   *)
(*   SpecGet   the retry loop of Spec.get (backoff ticker, deadline).      *)
(*   FairGet   SpecGet with the fairness the Go scheduler and the clock    *)
(*             provide.                                                    *)
(***************************************************************************)
EXTENDS Integers, Sequences, FiniteSets, TLC

VARIABLES
    step,       \* the parsed test step: action, Expect, retry override
    pc,         \* position of the evaluating goroutine
    cluster,    \* what the API server holds that the step can observe
    outcome,    \* err and out as the last kube command left them
    a,          \* the assertions object of the current attempt
    evaluated,  \* stages of assertions.OK run so far in this attempt
    result,     \* what Eval / Spec.get hands back to the runner
    attempts,   \* number of times the action has been issued
    hist,       \* per attempt: the failure list its assertions ended with
    now,        \* the clock
    deadline,   \* the context's deadline
    ticker      \* the backoff ticker goroutine

vars == <<step, pc, cluster, outcome, a, evaluated, result, attempts, hist,
          now, deadline, ticker>>

----------------------------------------------------------------------------
(* Bounds *)

MaxItems == 2       \* longest list the API server returns
MaxLen == 1         \* largest assert.len a step declares
MaxAttempts == 3    \* attempts after which the model stops retrying
MaxTime == 7        \* the clock stops here, past every deadline

----------------------------------------------------------------------------
(* Strings are sequences of one-character strings. *)

Contains(s, sub) ==
    \E i \in 0..(Len(s) - Len(sub)) : SubSeq(s, i + 1, i + Len(sub)) = sub

EmptyString == <<>>

----------------------------------------------------------------------------
(* Errors *)

\* http.StatusNotFound
StatusNotFound == 404

NilErr == [kind |-> "nil", code |-> 0, text |-> <<>>]

\* ResourceUnknown(arg): wraps ErrResourceUnknown, "resource unknown"
ResourceUnknown == [kind |-> "unknown", code |-> 0, text |-> <<"u", "n", "k">>]

\* *apierrors.StatusError carrying ErrStatus.Code
StatusError(code) ==
    [kind |-> "status", code |-> code,
     text |-> IF code = StatusNotFound THEN <<"n", "f">> ELSE <<"d", "e", "n">>]

Forbidden == StatusError(403)
Conflict == StatusError(409)

\* a plain error of the client (transport failure, context deadline exceeded)
OtherError == [kind |-> "other", code |-> 0, text |-> <<"e", "o", "f">>]
ContextDeadlineExceeded ==
    [kind |-> "other", code |-> 0, text |-> <<"c", "t", "x">>]

\* fmt.Errorf("%w: %s", api.RuntimeError, err): wraps, is not, api.RuntimeError
WrappedRuntimeError == [kind |-> "runtime", code |-> 0, text |-> <<"r", "t">>]

\* the two sentinels Eval compares with ==
ErrTimeoutExceeded == [kind |-> "timeout", code |-> 0, text |-> <<"t", "o">>]
RuntimeError == [kind |-> "rtsentinel", code |-> 0, text |-> <<"r">>]

\* errors.Is(err, ErrResourceUnknown)
IsResourceUnknown(err) == err.kind = "unknown"

\* err.(*apierrors.StatusError)
IsStatusError(err) == err.kind = "status"

----------------------------------------------------------------------------
(* Failures recorded by assertions.Fail *)

Failure(kind, code, text) == [kind |-> kind, code |-> code, text |-> text]

\* a.Fail(a.err) / a.Fail(apierr): the error itself is the failure
FailureOfError(err) ==
    Failure(IF err.kind = "unknown" THEN "ResourceUnknown" ELSE "StatusError",
            err.code, err.text)
ExpectedNotFound(code) == Failure("ExpectedNotFound", code, <<>>)
UnexpectedError(err) == Failure("UnexpectedError", err.code, err.text)
NotIn(text, sub) == Failure("NotIn", 0, sub)
NotEqualLength(exp, got) == Failure("NotEqualLength", got, <<>>)
MatchesNotEqual(diff) == Failure("MatchesNotEqual", 0, diff)
ConditionDoesNotMatch(diff) == Failure("ConditionDoesNotMatch", 0, diff)
JSONFailure(diff) == Failure("JSONFailure", 0, diff)
UnevenSpread(skew, domain) == Failure("UnevenSpread", skew, domain)
TimeoutFailure == Failure("TimeoutExceeded", 0, ErrTimeoutExceeded.text)

----------------------------------------------------------------------------
(* Documents: the untyped trees of unstructured.Unstructured and of a      *)
(* matches object.  A value carries its Go dynamic type in t.              *)

IntTypes == {"int", "int8", "int16", "int32", "int64"}
UintTypes == {"uint", "uint8", "uint16", "uint32", "uint64"}

IntV(t, n) == [t |-> t, n |-> n]
StrV(s) == [t |-> "string", s |-> s]
BoolV(b) == [t |-> "bool", b |-> b]
MapV(kv) == [t |-> "map", kv |-> kv]
ListV(l) == [t |-> "list", l |-> l]
NilV == [t |-> "nil"]

EmptyMap == MapV([k \in {} |-> NilV])

DigitChars == <<"0", "1", "2", "3", "4", "5", "6", "7", "8", "9">>

DigitOf(c) == (CHOOSE i \in 1..10 : DigitChars[i] = c) - 1
IsDigit(c) == \E i \in 1..10 : DigitChars[i] = c

RECURSIVE ItoaNat(_)
ItoaNat(n) ==
    IF n < 10 THEN <<DigitChars[n + 1]>>
    ELSE ItoaNat(n \div 10) \o <<DigitChars[(n % 10) + 1]>>

\* strconv.Itoa
Itoa(n) == IF n < 0 THEN <<"-">> \o ItoaNat(0 - n) ELSE ItoaNat(n)

RECURSIVE AtoiDigits(_, _)
AtoiDigits(s, acc) ==
    IF s = <<>> THEN acc ELSE AtoiDigits(Tail(s), acc * 10 + DigitOf(Head(s)))

\* strconv.Atoi: [ok, n]; a sign is allowed, at least one digit is required
Atoi(s) ==
    LET signed == s # <<>> /\ Head(s) \in {"-", "+"}
        body == IF signed THEN Tail(s) ELSE s
        good == body # <<>> /\ \A i \in 1..Len(body) : IsDigit(body[i])
    IN IF ~good THEN [ok |-> FALSE, n |-> 0]
       ELSE [ok |-> TRUE,
             n |-> IF signed /\ Head(s) = "-" THEN 0 - AtoiDigits(body, 0)
                   ELSE AtoiDigits(body, 0)]

\* typesComparable demanding identical dynamic types
typesComparable_sameType(x, y) == x.t = y.t

\* typesComparable: note that Int16 and Uint16 are missing from the kind
\* lists, so they fall through to the identical-type comparison
typesComparable(x, y) ==
    CASE x.t \in {"int", "int8", "int32", "int64"} ->
            y.t \in {"int", "int8", "int32", "int64", "string"}
      [] x.t \in {"uint", "uint8", "uint32", "uint64"} ->
            y.t \in {"uint", "uint8", "uint32", "uint64", "string"}
      [] x.t = "string" ->
            y.t \in {"int", "int8", "int32", "int64",
                     "uint", "uint8", "uint32", "uint64", "string"}
      [] OTHER -> x.t = y.t

\* toInt64
toInt64(v) == IF v.t \in IntTypes THEN v.n ELSE 0

\* toUint64
toUint64(v) == IF v.t \in UintTypes THEN v.n ELSE 0

\* the keys of a map in one iteration order (Go leaves the order unspecified;
\* only the order of the differences depends on it)
RECURSIVE KeySeq(_)
KeySeq(S) ==
    IF S = {} THEN <<>>
    ELSE LET k == CHOOSE x \in S : TRUE IN <<k>> \o KeySeq(S \ {k})

RECURSIVE ConcatAll(_)
ConcatAll(ss) == IF ss = <<>> THEN <<>> ELSE Head(ss) \o ConcatAll(Tail(ss))

DifferentValues == "had different values"
NotPresent == "not present in subject"
DifferentLengths == "had different lengths"
NonComparable == "non-comparable types"
\* subject.(int) on a subject that is not an int: a run-time panic
PanicDiff == <<"panic: interface conversion">>

\* collectFieldDifferences_descend descending into sequences of unequal length
RECURSIVE collectFieldDifferences_descend(_, _, _)
collectFieldDifferences_descend(fp, match, subject) ==
    IF ~typesComparable(match, subject) THEN <<fp \o <<NonComparable>>>>
    ELSE CASE match.t = "map" ->
            LET ks == KeySeq(DOMAIN match.kv)
            IN ConcatAll([i \in 1..Len(ks) |->
                   IF ks[i] \notin DOMAIN subject.kv
                   THEN <<fp \o <<".", ks[i], NotPresent>>>>
                   ELSE collectFieldDifferences_descend(fp \o <<".", ks[i]>>,
                            match.kv[ks[i]], subject.kv[ks[i]])])
      [] match.t = "list" ->
            (IF Len(match.l) # Len(subject.l)
             THEN <<fp \o <<DifferentLengths>>>> ELSE <<>>)
            \o ConcatAll([x \in 1..(IF Len(match.l) < Len(subject.l)
                                     THEN Len(match.l) ELSE Len(subject.l)) |->
                   collectFieldDifferences_descend(
                       fp \o <<"[">> \o Itoa(x - 1) \o <<"]">>,
                       match.l[x], subject.l[x])])
      [] match.t \in IntTypes ->
            CASE subject.t \in IntTypes ->
                    IF toInt64(match) # toInt64(subject)
                    THEN <<fp \o <<DifferentValues>>>> ELSE <<>>
              [] subject.t \in UintTypes ->
                    IF toUint64(match) # toUint64(subject)
                    THEN <<fp \o <<DifferentValues>>>> ELSE <<>>
              [] subject.t = "string" ->
                    LET sv == Atoi(subject.s)
                    IN IF ~sv.ok \/ toInt64(match) # sv.n
                       THEN <<fp \o <<DifferentValues>>>> ELSE <<>>
              [] OTHER -> <<>>
      [] match.t = "string" ->
            CASE subject.t \in IntTypes \cup UintTypes ->
                    IF subject.t # "int" THEN <<PanicDiff>>
                    ELSE IF match.s # Itoa(subject.n)
                         THEN <<fp \o <<DifferentValues>>>> ELSE <<>>
              [] subject.t = "string" ->
                    IF match.s # subject.s
                    THEN <<fp \o <<DifferentValues>>>> ELSE <<>>
              [] OTHER -> <<>>
      [] OTHER ->
            \* reflect.DeepEqual
            IF match # subject THEN <<fp \o <<DifferentValues>>>> ELSE <<>>

\* collectFieldDifferences: the differences added to delta, in order
RECURSIVE collectFieldDifferences(_, _, _)
collectFieldDifferences(fp, match, subject) ==
    IF ~typesComparable(match, subject) THEN <<fp \o <<NonComparable>>>>
    ELSE CASE match.t = "map" ->
            LET ks == KeySeq(DOMAIN match.kv)
            IN ConcatAll([i \in 1..Len(ks) |->
                   IF ks[i] \notin DOMAIN subject.kv
                   THEN <<fp \o <<".", ks[i], NotPresent>>>>
                   ELSE collectFieldDifferences(fp \o <<".", ks[i]>>,
                            match.kv[ks[i]], subject.kv[ks[i]])])
      [] match.t = "list" ->
            IF Len(match.l) # Len(subject.l)
            THEN <<fp \o <<DifferentLengths>>>>
            ELSE ConcatAll([x \in 1..Len(match.l) |->
                   collectFieldDifferences(
                       fp \o <<"[">> \o Itoa(x - 1) \o <<"]">>,
                       match.l[x], subject.l[x])])
      [] match.t \in IntTypes ->
            CASE subject.t \in IntTypes ->
                    IF toInt64(match) # toInt64(subject)
                    THEN <<fp \o <<DifferentValues>>>> ELSE <<>>
              [] subject.t \in UintTypes ->
                    IF toUint64(match) # toUint64(subject)
                    THEN <<fp \o <<DifferentValues>>>> ELSE <<>>
              [] subject.t = "string" ->
                    LET sv == Atoi(subject.s)
                    IN IF ~sv.ok \/ toInt64(match) # sv.n
                       THEN <<fp \o <<DifferentValues>>>> ELSE <<>>
              [] OTHER -> <<>>
      [] match.t = "string" ->
            CASE subject.t \in IntTypes \cup UintTypes ->
                    IF subject.t # "int" THEN <<PanicDiff>>
                    ELSE IF match.s # Itoa(subject.n)
                         THEN <<fp \o <<DifferentValues>>>> ELSE <<>>
              [] subject.t = "string" ->
                    IF match.s # subject.s
                    THEN <<fp \o <<DifferentValues>>>> ELSE <<>>
              [] OTHER -> <<>>
      [] OTHER ->
            \* reflect.DeepEqual
            IF match # subject THEN <<fp \o <<DifferentValues>>>> ELSE <<>>

\* compareResourceToMatchObject starting from an empty field path
compareResourceToMatchObject_noRoot(res, match) ==
    collectFieldDifferences(<<>>, match, res)

\* compareResourceToMatchObject: delta.Differences()
compareResourceToMatchObject(res, match) ==
    collectFieldDifferences(<<"$">>, match, res)

Panicked(diffs) == \E i \in 1..Len(diffs) : diffs[i] = PanicDiff


----------------------------------------------------------------------------
(* Conditions *)

UpperChars == <<"A", "B", "C", "D", "E", "F", "G", "H", "I", "J", "K", "L",
                "M", "N", "O", "P", "Q", "R", "S", "T", "U", "V", "W", "X",
                "Y", "Z">>
LowerChars == <<"a", "b", "c", "d", "e", "f", "g", "h", "i", "j", "k", "l",
                "m", "n", "o", "p", "q", "r", "s", "t", "u", "v", "w", "x",
                "y", "z">>

LowerChar(c) ==
    IF \E i \in 1..26 : UpperChars[i] = c
    THEN LowerChars[CHOOSE i \in 1..26 : UpperChars[i] = c]
    ELSE c

\* strings.ToLower
ToLower(s) == [i \in 1..Len(s) |-> LowerChar(s[i])]

NoStatus == <<>>

\* a ConditionMatch: Status is nil (hasStatus = FALSE) or a list of accepted
\* statuses; Reason is "" or the reason to match exactly
ConditionMatch(hasStatus, statuses, reason) ==
    [hasStatus |-> hasStatus, Status |-> statuses, Reason |-> reason]

NoConditionFound == "no condition with type found"
HadNoStatus == "had no status"
HadStatus == "had status of"
HadReason == "had reason of"
PanicConditions == <<"panic: unexpected Status.Conditions">>

\* unstructured.NestedSlice(res.Object, "status", "conditions"): a value of
\* the wrong type on the way is reported as not found, with an error
NestedConditions(res) ==
    IF "status" \notin DOMAIN res.kv THEN [found |-> FALSE, err |-> FALSE, l |-> <<>>]
    ELSE LET st == res.kv["status"]
         IN IF st.t # "map" THEN [found |-> FALSE, err |-> TRUE, l |-> <<>>]
            ELSE IF "conditions" \notin DOMAIN st.kv
                 THEN [found |-> FALSE, err |-> FALSE, l |-> <<>>]
                 ELSE IF st.kv["conditions"].t # "list"
                      THEN [found |-> FALSE, err |-> TRUE, l |-> <<>>]
                      ELSE [found |-> TRUE, err |-> FALSE,
                            l |-> st.kv["conditions"].l]

StringField(m, k) == IF k \in DOMAIN m.kv THEN m.kv[k].s ELSE <<>>

\* the genericCondition keeping type and status as they are spelled
genericCondition_caseSensitive(cond) ==
    [Type |-> StringField(cond, "type"),
     Status |-> StringField(cond, "status"),
     Reason |-> StringField(cond, "reason")]

\* the genericCondition built from one member of Status.Conditions
genericCondition(cond) ==
    [Type |-> ToLower(StringField(cond, "type")),
     Status |-> ToLower(StringField(cond, "status")),
     Reason |-> StringField(cond, "reason")]

\* gcs[ctlow]: a later condition of the same type overwrites an earlier one
gcsLookup(conds, ctlow) ==
    LET hits == {i \in 1..Len(conds) : genericCondition(conds[i]).Type = ctlow}
    IN IF hits = {} THEN [found |-> FALSE, gc |-> genericCondition(MapV([k \in {} |-> NilV]))]
       ELSE [found |-> TRUE,
             gc |-> genericCondition(conds[CHOOSE i \in hits : \A j \in hits : j <= i])]

\* the difference for one expected condition type, the reason compared
\* without regard to case
conditionDifferences_reasonFolded(conds, condType, condMatch) ==
    LET hit == gcsLookup(conds, ToLower(condType))
        gc == hit.gc
        svlow == [i \in 1..Len(condMatch.Status) |-> ToLower(condMatch.Status[i])]
    IN IF ~hit.found THEN <<condType \o <<NoConditionFound>>>>
       ELSE IF condMatch.hasStatus /\ gc.Status = <<>>
            THEN <<condType \o <<HadNoStatus>>>>
       ELSE IF condMatch.hasStatus
               /\ ~\E i \in 1..Len(svlow) : svlow[i] = ToLower(gc.Status)
            THEN <<condType \o <<HadStatus>>>>
       ELSE IF condMatch.Reason # <<>> /\ ToLower(gc.Reason) # ToLower(condMatch.Reason)
            THEN <<condType \o <<HadReason>>>>
       ELSE <<>>

\* the difference, or none, for one expected condition type
conditionDifferences(conds, condType, condMatch) ==
    LET hit == gcsLookup(conds, ToLower(condType))
        gc == hit.gc
        svlow == [i \in 1..Len(condMatch.Status) |-> ToLower(condMatch.Status[i])]
    IN IF ~hit.found THEN <<condType \o <<NoConditionFound>>>>
       ELSE IF condMatch.hasStatus /\ gc.Status = <<>>
            THEN <<condType \o <<HadNoStatus>>>>
       ELSE IF condMatch.hasStatus
               /\ ~\E i \in 1..Len(svlow) : svlow[i] = ToLower(gc.Status)
            THEN <<condType \o <<HadStatus>>>>
       ELSE IF condMatch.Reason # <<>> /\ gc.Reason # condMatch.Reason
            THEN <<condType \o <<HadReason>>>>
       ELSE <<>>

\* compareConditions: delta.Differences()
compareConditions(res, expected) ==
    LET nc == NestedConditions(res)
        types == KeySeq(DOMAIN expected)
        wellFormed == \A i \in 1..Len(nc.l) :
                         /\ nc.l[i].t = "map"
                         /\ \A k \in DOMAIN nc.l[i].kv \cap {"type", "status", "reason"} :
                                nc.l[i].kv[k].t = "string"
    IN IF nc.found /\ nc.err THEN <<PanicConditions>>
       ELSE IF (~nc.found \/ Len(nc.l) = 0) /\ Len(types) # 0
            THEN [i \in 1..Len(types) |-> types[i] \o <<NoConditionFound>>]
       ELSE IF ~wellFormed THEN <<PanicConditions>>
       ELSE ConcatAll([i \in 1..Len(types) |->
                conditionDifferences(nc.l, types[i], expected[types[i]])])


----------------------------------------------------------------------------
(* JSON path expectations (gdt's json assertion, called by jsonOK)         *)

JSONUnmarshalError == <<"json: unable to unmarshal content">>
JSONPathNotFound == "path did not match any node"
JSONPathNotEqual == "path value not equal"

\* ja.Failures() for path expectations keyed by a top-level field; hasDoc is
\* FALSE when the subject was not a single resource and the content is empty
jsonFailures(paths, hasDoc, doc) ==
    LET ks == KeySeq(DOMAIN paths)
    IN IF ~hasDoc THEN <<JSONUnmarshalError>>
       ELSE ConcatAll([i \in 1..Len(ks) |->
                IF ks[i] \notin DOMAIN doc.kv
                THEN <<<<"$", ".", ks[i], JSONPathNotFound>>>>
                ELSE IF doc.kv[ks[i]] # paths[ks[i]]
                     THEN <<<<"$", ".", ks[i], JSONPathNotEqual>>>>
                     ELSE <<>>])

----------------------------------------------------------------------------
(* Placement *)

sDeployment == <<"D", "e", "p", "l", "o", "y", "m", "e", "n", "t">>
sStatefulSet == <<"S", "t", "a", "t", "e", "f", "u", "l", "S", "e", "t">>
sPod == <<"P", "o", "d">>

\* r.GetKind(), r.GetNamespace()
GetKind(doc) == IF "kind" \in DOMAIN doc.kv THEN doc.kv["kind"].s ELSE <<>>
GetNamespace(doc) ==
    IF "metadata" \in DOMAIN doc.kv
       /\ "namespace" \in DOMAIN doc.kv["metadata"].kv
    THEN doc.kv["metadata"].kv["namespace"].s ELSE <<>>

\* spec.selector.matchLabels is present
HasMatchLabels(doc) ==
    /\ "spec" \in DOMAIN doc.kv
    /\ "selector" \in DOMAIN doc.kv["spec"].kv
    /\ "matchLabels" \in DOMAIN doc.kv["spec"].kv["selector"].kv

\* getNodes: domainNodes[k], the names of the nodes that carry label k
domainNodes(cl, k) == {n \in DOMAIN cl.nodes : k \in DOMAIN cl.nodes[n]}

\* getPods: the pods listed for the owner r.  The "deployment" case is empty,
\* so no selector is built for a Deployment; for a StatefulSet the type
\* assertion matchLabels.(map[string]string) on a map[string]any panics.
getPods(cl, doc) ==
    LET kind == ToLower(GetKind(doc))
        ns == GetNamespace(doc)
        listed == {p \in cl.pods : p.ns = ns}
    IN CASE kind = ToLower(sDeployment) -> [panic |-> FALSE, pods |-> listed]
         [] kind = ToLower(sStatefulSet) ->
               IF HasMatchLabels(doc) THEN [panic |-> TRUE, pods |-> {}]
               ELSE [panic |-> FALSE, pods |-> listed]
         [] OTHER -> [panic |-> TRUE, pods |-> {}]

\* podDomains[k][dom]
podDomains(cl, pods, dom) == Cardinality({p \in pods : p.nodename = dom})

SetMax(S) == CHOOSE x \in S : \A y \in S : y <= x
SetMin(S) == CHOOSE x \in S : \A y \in S : x <= y

\* the skew of topology key k over the nodes that carry it
Skew(cl, pods, k) ==
    LET counts == {podDomains(cl, pods, dom) : dom \in domainNodes(cl, k)}
    IN SetMax(counts) - SetMin(counts)

\* placementSpreadOK: [panic, failures]
placementSpreadOK(cl, doc, topoKeys) ==
    LET gp == getPods(cl, doc)
        bad == {k \in topoKeys :
                  domainNodes(cl, k) # {} /\ Skew(cl, gp.pods, k) > 1}
    IN IF topoKeys = {} THEN [panic |-> FALSE, failures |-> <<>>]
       ELSE IF gp.panic THEN [panic |-> TRUE, failures |-> <<>>]
       ELSE IF bad = {} THEN [panic |-> FALSE, failures |-> <<>>]
       ELSE LET k == CHOOSE x \in bad : TRUE
            IN [panic |-> FALSE,
                failures |-> <<UnevenSpread(Skew(cl, gp.pods, k), <<k>>)>>]

\* placementPackOK
placementPackOK(cl, doc, topoKeys) == TRUE


----------------------------------------------------------------------------
(* Expect, the subject and the assertions object *)

\* a pointer-valued field of Expect: set is FALSE for nil
Unset(v) == [set |-> FALSE, v |-> v]
SetTo(v) == [set |-> TRUE, v |-> v]

\* the value held by the `r any` field of assertions: kind is the dynamic
\* type ("nil" for the nil interface), ptr whether the pointer is non-nil
NilSubject == [kind |-> "nil", ptr |-> FALSE, n |-> 0, doc |-> EmptyMap]
ObjSubject(doc) == [kind |-> "obj", ptr |-> TRUE, n |-> 0, doc |-> doc]
ListSubject(n) == [kind |-> "list", ptr |-> TRUE, n |-> n, doc |-> EmptyMap]
\* the []*unstructured.Unstructured that create and apply hand out
SliceSubject(n) == [kind |-> "slice", ptr |-> TRUE, n |-> n, doc |-> EmptyMap]
\* a typed nil pointer stored in the interface (Spec.get's doList / doGet)
TypedNil(kind) == [kind |-> kind, ptr |-> FALSE, n |-> 0, doc |-> EmptyMap]

\* newAssertions
newAssertions(exp, err, r) ==
    [failures |-> <<>>, exp |-> exp, err |-> err, r |-> r]

\* assertions.Fail
Fail(as, f) == [as EXCEPT !.failures = Append(@, f)]

FailAll(as, fs) == [as EXCEPT !.failures = @ \o fs]

\* assertions.hasSubject
hasSubject(as) == as.r.kind \in {"obj", "list"} /\ as.r.ptr

\* expectsNotFound that forgets the len: 0 equivalence
expectsNotFound_onlyFlag(as) == as.exp.NotFound

\* assertions.expectsNotFound
expectsNotFound(as) ==
    (as.exp.Len.set /\ as.exp.Len.v = 0) \/ as.exp.NotFound

Passed(as) == [ok |-> TRUE, panic |-> FALSE, a |-> as]
Failed(as) == [ok |-> FALSE, panic |-> FALSE, a |-> as]
Panic(as) == [ok |-> FALSE, panic |-> TRUE, a |-> as]

\* errorOK, lines 287-301: the substring expectation and the final check
errorOKRemaining(as) ==
    IF as.exp.Error # <<>> /\ as.r.kind # "nil" /\ as.err = NilErr
    THEN Failed(Fail(as, UnexpectedError(as.err)))
    ELSE IF as.exp.Error # <<>> /\ as.r.kind # "nil"
            /\ ~Contains(as.err.text, as.exp.Error)
    THEN Failed(Fail(as, NotIn(as.err.text, as.exp.Error)))
    ELSE IF as.err # NilErr
    THEN Failed(Fail(as, UnexpectedError(as.err)))
    ELSE Passed(as)

\* errorOK, lines 269-285: the StatusError check
errorOKStatus(as) ==
    IF ~IsStatusError(as.err) THEN errorOKRemaining(as)
    ELSE IF expectsNotFound(as)
         THEN IF as.err.code # StatusNotFound
              THEN Failed(Fail(as, ExpectedNotFound(as.err.code)))
              ELSE errorOKRemaining([as EXCEPT !.err = NilErr])
         ELSE Failed(Fail(as, FailureOfError(as.err)))

\* errorOK that swallows the unknown-resource error whatever was declared
errorOK_alwaysSwallow(as) ==
    IF as.err = NilErr THEN errorOKRemaining(as)
    ELSE IF IsResourceUnknown(as.err)
         THEN errorOKStatus([as EXCEPT !.err = NilErr])
         ELSE errorOKStatus(as)

\* assertions.errorOK
errorOK(as) ==
    IF as.err = NilErr THEN errorOKRemaining(as)
    ELSE IF IsResourceUnknown(as.err)
         THEN IF ~as.exp.Unknown
              THEN Failed(Fail(as, FailureOfError(as.err)))
              ELSE errorOKStatus([as EXCEPT !.err = NilErr])
         ELSE errorOKStatus(as)

\* lenOK with the comparison dropped
lenOK_unchecked(as) == Passed(as)

\* assertions.lenOK
lenOK(as) ==
    IF as.exp.Len.set /\ hasSubject(as) /\ as.r.kind = "list" /\ as.r.ptr
       /\ as.r.n # as.exp.Len.v
    THEN Failed(Fail(as, NotEqualLength(as.exp.Len.v, as.r.n)))
    ELSE Passed(as)

\* assertions.matchesOK
matchesOK(as) ==
    IF as.exp.Matches.set /\ hasSubject(as) /\ as.r.kind = "obj"
    THEN LET delta == compareResourceToMatchObject(as.r.doc, as.exp.Matches.v)
         IN IF Panicked(delta) THEN Panic(as)
            ELSE IF delta # <<>>
                 THEN Failed(FailAll(as, [i \in 1..Len(delta) |-> MatchesNotEqual(delta[i])]))
                 ELSE Passed(as)
    ELSE Passed(as)

\* assertions.conditionsOK
conditionsOK(as) ==
    IF as.exp.Conditions.set /\ hasSubject(as) /\ as.r.kind = "obj"
    THEN LET delta == compareConditions(as.r.doc, as.exp.Conditions.v)
         IN IF delta = <<PanicConditions>> THEN Panic(as)
            ELSE IF delta # <<>>
                 THEN Failed(FailAll(as, [i \in 1..Len(delta) |-> ConditionDoesNotMatch(delta[i])]))
                 ELSE Passed(as)
    ELSE Passed(as)

\* assertions.jsonOK
jsonOK(as) ==
    IF as.exp.JSON.set /\ hasSubject(as)
    THEN LET fs == jsonFailures(as.exp.JSON.v, as.r.kind = "obj", as.r.doc)
         IN IF fs # <<>> THEN Failed(FailAll(as, [i \in 1..Len(fs) |-> JSONFailure(fs[i])]))
            ELSE Passed(as)
    ELSE Passed(as)

\* assertions.placementOK
placementOK(as, cl) ==
    IF as.exp.Placement.set /\ hasSubject(as)
    THEN IF as.r.kind # "obj" THEN Panic(as)
         ELSE LET pl == as.exp.Placement.v
                  sp == IF pl.Spread.set
                        THEN placementSpreadOK(cl, as.r.doc, pl.Spread.v)
                        ELSE [panic |-> FALSE, failures |-> <<>>]
                  pk == ~pl.Pack.set \/ placementPackOK(cl, as.r.doc, pl.Pack.v)
              IN IF sp.panic THEN Panic(as)
                 ELSE IF sp.failures # <<>> \/ ~pk
                      THEN Failed(FailAll(as, sp.failures))
                      ELSE Passed(as)
    ELSE Passed(as)

\* OK calling lenOK before errorOK
Stages_lenFirst ==
    <<"len", "error", "matches", "conditions", "json", "placement">>

\* the stages of assertions.OK in the order OK calls them
Stages == <<"error", "len", "matches", "conditions", "json", "placement">>

StageOK(stage, as, cl) ==
    CASE stage = "error" -> errorOK(as)
      [] stage = "len" -> lenOK(as)
      [] stage = "matches" -> matchesOK(as)
      [] stage = "conditions" -> conditionsOK(as)
      [] stage = "json" -> jsonOK(as)
      [] stage = "placement" -> placementOK(as, cl)

\* assertions.OK with a nil Expect
nilExpectOK(as) ==
    IF as.err # NilErr THEN Failed(Fail(as, UnexpectedError(as.err)))
    ELSE Passed(as)

RECURSIVE RunStages(_, _, _)
RunStages(i, as, cl) ==
    IF i > Len(Stages) THEN Passed(as)
    ELSE LET st == StageOK(Stages[i], as, cl)
         IN IF st.ok THEN RunStages(i + 1, st.a, cl) ELSE st

\* assertions.OK: [ok, panic, a] where a carries Failures()
OK(as, cl) == IF as.exp.isNil THEN nilExpectOK(as) ELSE RunStages(1, as, cl)


----------------------------------------------------------------------------
(* The test steps and the API server's answers the model draws from *)

sTrue == <<"T", "r", "u", "e">>
sFalse == <<"F", "a", "l", "s", "e">>
sAvailable == <<"A", "v", "a", "i", "l", "a", "b", "l", "e">>
sNs == <<"n", "s">>

Condition(type, status, reason) ==
    MapV([type |-> StrV(type), status |-> StrV(status), reason |-> StrV(reason)])

\* a Deployment as the dynamic client decodes it (JSON numbers are int64)
DeployDoc(ready, avail) ==
    MapV([kind |-> StrV(sDeployment),
          metadata |-> MapV([namespace |-> StrV(sNs)]),
          status |-> MapV([readyReplicas |-> IntV("int64", ready),
                           conditions |-> ListV(<<Condition(sAvailable, avail, <<"o", "k">>)>>)])])

PodDoc == MapV([kind |-> StrV(sPod),
                metadata |-> MapV([namespace |-> StrV(sNs)])])

Docs == {DeployDoc(2, sTrue), DeployDoc(1, sFalse), PodDoc}

\* matches: {status: {readyReplicas: 2}} as yaml decodes it (int)
MatchReady == MapV([status |-> MapV([readyReplicas |-> IntV("int", 2)])])

\* conditions: {available: true}
CondAvailable ==
    [t \in {ToLower(sAvailable)} |-> ConditionMatch(TRUE, <<ToLower(sTrue)>>, <<>>)]

\* json: paths: {$.kind: Deployment}
JSONKind == [kind |-> StrV(sDeployment)]

\* placement: {spread: zone}
SpreadZone == [Spread |-> SetTo({"zone"}), Pack |-> SetTo({"zone"})]

ErrorTexts == {<<>>, <<"d", "e">>, <<"x">>}

Expect(error, len, notfound, unknown, matches, conditions, json, placement) ==
    [isNil |-> FALSE, Error |-> error, Len |-> len, NotFound |-> notfound,
     Unknown |-> unknown, Matches |-> matches, Conditions |-> conditions,
     JSON |-> json, Placement |-> placement]

\* a step with no assert: block
NilExpect ==
    [isNil |-> TRUE, Error |-> <<>>, Len |-> Unset(0), NotFound |-> FALSE,
     Unknown |-> FALSE, Matches |-> Unset(MatchReady),
     Conditions |-> Unset(CondAvailable), JSON |-> Unset(JSONKind),
     Placement |-> Unset(SpreadZone)]

Optional(v) == {Unset(v), SetTo(v)}

Expects ==
    {NilExpect} \cup
    {Expect(e, l, nf, u, m, c, j, p) :
        e \in ErrorTexts,
        l \in {Unset(0)} \cup {SetTo(n) : n \in 0..MaxLen},
        nf \in BOOLEAN, u \in BOOLEAN,
        m \in Optional(MatchReady), c \in Optional(CondAvailable),
        j \in Optional(JSONKind), p \in Optional(SpreadZone)}

\* api.Retry; isNil for a nil pointer, Attempts = 0 when unset
NilRetry == [isNil |-> TRUE, Attempts |-> 0, Exponential |-> FALSE]
NoRetry == [isNil |-> FALSE, Attempts |-> 1, Exponential |-> FALSE]
\* a retry: block of the test spec that asks for two attempts
UserRetry == [isNil |-> FALSE, Attempts |-> 2, Exponential |-> FALSE]

\* Action: which of Get/Create/Apply/Delete is set, whether a name follows
\* the kind, whether the argument is a manifest file
Actions ==
    {[cmd |-> "get", named |-> n, file |-> FALSE] : n \in BOOLEAN}
    \cup {[cmd |-> c, named |-> TRUE, file |-> f] :
            c \in {"create", "apply"}, f \in BOOLEAN}
    \cup {[cmd |-> "delete", named |-> n, file |-> FALSE] : n \in BOOLEAN}
    \cup {[cmd |-> "delete", named |-> TRUE, file |-> TRUE]}

Steps ==
    {[action |-> act, exp |-> e, retry |-> r] :
        act \in Actions, e \in Expects, r \in {NilRetry, UserRetry}}

\* nodes by name with their labels, pods with namespace and node
Nodes2 == [n1 |-> [zone |-> "a"], n2 |-> [zone |-> "b"]]
PodOn(name, node) == [name |-> name, ns |-> sNs, nodename |-> node]
Clusters ==
    {[nsExists |-> e, nodes |-> Nodes2, pods |-> ps] :
        e \in BOOLEAN,
        ps \in {{PodOn("p1", "n1"), PodOn("p2", "n2")},
                {PodOn("p1", "n1"), PodOn("p2", "n1")}}}


----------------------------------------------------------------------------
(* Action.Do: the error and the output a single kube command ends with *)

Outcome(err, out) == [err |-> err, out |-> out]

\* what a client call can fail with
ClientErrors ==
    {StatusError(StatusNotFound), Forbidden, OtherError}

\* Action.get: resolve the kind, then Get (a name was given) or List
getOutcomes(act) ==
    {Outcome(ResourceUnknown, NilSubject)}
    \cup {Outcome(e, NilSubject) : e \in ClientErrors}
    \cup IF act.named
         THEN {Outcome(NilErr, ObjSubject(d)) : d \in Docs}
         ELSE {Outcome(NilErr, ListSubject(n)) : n \in 0..MaxItems}

\* Action.create / Action.apply: read the manifest, resolve each kind, call
\* Create / Apply; out is set only when every object went through
createOutcomes(act) ==
    {Outcome(WrappedRuntimeError, NilSubject),
     Outcome(ResourceUnknown, NilSubject),
     Outcome(Conflict, NilSubject),
     Outcome(OtherError, NilSubject),
     Outcome(NilErr, SliceSubject(1))}

\* Action.delete: out is never set
deleteOutcomes(act) ==
    (IF act.file THEN {Outcome(WrappedRuntimeError, NilSubject)} ELSE {})
    \cup {Outcome(ResourceUnknown, NilSubject)}
    \cup {Outcome(e, NilSubject) : e \in ClientErrors}
    \cup {Outcome(NilErr, NilSubject)}

\* Action.Do
DoOutcomes(act) ==
    CASE act.cmd = "get" -> getOutcomes(act)
      [] act.cmd \in {"create", "apply"} -> createOutcomes(act)
      [] act.cmd = "delete" -> deleteOutcomes(act)

----------------------------------------------------------------------------
(* Retry policy *)

\* plugin.Info().Retry
PluginRetry == [isNil |-> FALSE, Attempts |-> 0, Exponential |-> TRUE]

\* Spec.Retry falling back to the plugin default for every action
Retry_alwaysDefault(st) == IF ~st.retry.isNil THEN st.retry ELSE NilRetry

\* Spec.Retry
Retry(st) ==
    IF ~st.retry.isNil THEN st.retry
    ELSE IF st.action.cmd = "get" THEN NilRetry
    ELSE NoRetry

\* the policy the scenario runner applies: the spec's, else the plugin's
EffectiveRetry(st) == IF Retry(st).isNil THEN PluginRetry ELSE Retry(st)

\* the number of attempts the runner allows; an exponential policy without
\* an attempt count retries until the timeout, here MaxAttempts
AllowedAttempts(st) ==
    LET r == EffectiveRetry(st)
    IN IF r.Attempts > 0 THEN r.Attempts ELSE MaxAttempts

----------------------------------------------------------------------------
(* Spec: Spec.Eval, one step at a time *)

NoResult == [returned |-> FALSE, err |-> NilErr, failures |-> <<>>]
\* return nil, err
ReturnError(err) == [returned |-> TRUE, err |-> err, failures |-> <<>>]
\* return api.NewResult(api.WithFailures(...)), nil
ReturnResult(failures) ==
    [returned |-> TRUE, err |-> NilErr, failures |-> failures]

ResultPassed(res) == res.returned /\ res.err = NilErr /\ res.failures = <<>>

ConnectError == [kind |-> "runtime", code |-> 0, text |-> <<"c", "o", "n">>]

NoTicker == [state |-> "off", interval |-> 0, due |-> 0, late |-> 0]

Init ==
    /\ step \in Steps
    /\ cluster \in Clusters
    /\ pc = "connect"
    /\ outcome = Outcome(NilErr, NilSubject)
    /\ a = newAssertions(step.exp, NilErr, NilSubject)
    /\ evaluated = <<>>
    /\ result = NoResult
    /\ attempts = 0
    /\ hist = <<>>
    /\ now = 0
    /\ deadline = 0
    /\ ticker = NoTicker

\* s.connect(ctx)
Connect ==
    /\ pc = "connect"
    /\ \E ok \in BOOLEAN :
          IF ok THEN pc' = "ensureNamespace" /\ result' = NoResult
          ELSE pc' = "done" /\ result' = ReturnError(ConnectError)
    /\ UNCHANGED <<step, cluster, outcome, a, evaluated, attempts, hist, now,
                   deadline, ticker>>

\* ensureNamespace(ctx, c, ns): create the namespace unless it is there
EnsureNamespace ==
    /\ pc = "ensureNamespace"
    /\ \E fails \in BOOLEAN :
          IF fails
          THEN pc' = "done" /\ result' = ReturnError(OtherError)
               /\ UNCHANGED cluster
          ELSE /\ pc' = "do"
               /\ cluster' = [cluster EXCEPT !.nsExists = TRUE]
               /\ UNCHANGED result
    /\ UNCHANGED <<step, outcome, a, evaluated, attempts, hist, now, deadline,
                   ticker>>

\* err = s.Kube.Do(ctx, c, ns, &out), the two sentinel comparisons and
\* newAssertions(c, s.Assert, err, out)
Do ==
    /\ pc = "do"
    /\ \E o \in DoOutcomes(step.action) :
          /\ outcome' = o
          /\ attempts' = attempts + 1
          /\ evaluated' = <<>>
          /\ IF o.err = ErrTimeoutExceeded
             THEN /\ pc' = "done"
                  /\ result' = ReturnResult(<<TimeoutFailure>>)
                  /\ UNCHANGED a
             ELSE IF o.err = RuntimeError
             THEN /\ pc' = "done"
                  /\ result' = ReturnError(o.err)
                  /\ UNCHANGED a
             ELSE /\ pc' = "assert"
                  /\ a' = newAssertions(step.exp, o.err, o.out)
                  /\ UNCHANGED result
    /\ UNCHANGED <<step, cluster, hist, now, deadline, ticker>>

\* the end of a.OK(ctx) in Eval: a Result with or without failures
Finish(st) ==
    /\ a' = st.a
    /\ IF st.panic THEN pc' = "panic" /\ UNCHANGED result
       ELSE pc' = "done" /\ result' = ReturnResult(st.a.failures)

\* a.OK(ctx) with a nil Expect
AssertNil ==
    /\ pc = "assert"
    /\ a.exp.isNil
    /\ Finish(nilExpectOK(a))
    /\ UNCHANGED <<step, cluster, outcome, evaluated, attempts, hist, now,
                   deadline, ticker>>

\* a.OK(ctx): the next stage; a failing stage returns false at once
AssertStage ==
    /\ pc = "assert"
    /\ ~a.exp.isNil
    /\ LET stage == Stages[Len(evaluated) + 1]
           st == StageOK(stage, a, cluster)
       IN /\ evaluated' = Append(evaluated, stage)
          /\ IF st.ok /\ Len(evaluated) + 1 < Len(Stages)
             THEN a' = st.a /\ UNCHANGED <<pc, result>>
             ELSE Finish(st)
    /\ UNCHANGED <<step, cluster, outcome, attempts, hist, now, deadline,
                   ticker>>

\* the scenario runner: a failed step is evaluated again while the retry
\* policy allows another attempt
RunnerRetry ==
    /\ pc = "done"
    /\ result.returned /\ result.err = NilErr /\ result.failures # <<>>
    /\ attempts < AllowedAttempts(step)
    /\ attempts < MaxAttempts
    /\ pc' = "connect"
    /\ outcome' = Outcome(NilErr, NilSubject)
    /\ a' = newAssertions(step.exp, NilErr, NilSubject)
    /\ evaluated' = <<>>
    /\ result' = NoResult
    /\ UNCHANGED <<step, cluster, attempts, hist, now, deadline, ticker>>

Next ==
    \/ Connect
    \/ EnsureNamespace
    \/ Do
    \/ AssertNil
    \/ AssertStage
    \/ RunnerRetry

Spec == Init /\ [][Next]_vars


----------------------------------------------------------------------------
(* Properties of Spec *)

\* the error stage of the current attempt has run
ErrorStageRan == evaluated # <<>> /\ pc \in {"assert", "done", "panic"}

\* the error stage has run and returned false
ErrorStageFailed == evaluated = <<"error">> /\ a.failures # <<>>

\* Eval has returned for an attempt whose assertions were evaluated
Evaluated == pc = "done" /\ result.returned /\ (a.exp.isNil \/ evaluated # <<>>)
              /\ attempts > 0 /\ result.err = NilErr

Mutating == step.action.cmd \in {"create", "apply", "delete"}

\* the stage that records a failure of this kind
StageOfFailure(f) ==
    CASE f.kind \in {"ResourceUnknown", "StatusError", "ExpectedNotFound",
                     "UnexpectedError", "NotIn"} -> "error"
      [] f.kind = "NotEqualLength" -> "len"
      [] f.kind = "MatchesNotEqual" -> "matches"
      [] f.kind = "ConditionDoesNotMatch" -> "conditions"
      [] f.kind = "JSONFailure" -> "json"
      [] f.kind = "UnevenSpread" -> "placement"

\* the action's error is one the declared expectations swallow
Swallowed(err, as) ==
    \/ IsResourceUnknown(err) /\ as.exp.Unknown
    \/ err = StatusError(StatusNotFound) /\ expectsNotFound(as)

\* C1: once the error stage has run on a 404 status error, the error is
\* cleared and the stage has passed if notfound: true or len: 0 was declared;
\* otherwise the stage has failed, Eval has returned, and the status error is
\* the one recorded failure.
C1_NotFoundSwallowedIffExpected ==
    (ErrorStageRan /\ outcome.err = StatusError(StatusNotFound)) =>
        IF a.exp.NotFound \/ (a.exp.Len.set /\ a.exp.Len.v = 0)
        THEN a.err = NilErr /\ ~ErrorStageFailed
        ELSE /\ ErrorStageFailed /\ pc = "done"
             /\ a.failures = <<FailureOfError(outcome.err)>>
             /\ result.failures = a.failures

C1_Witness ==
    /\ Evaluated /\ outcome.err = StatusError(StatusNotFound)
    /\ ~a.exp.NotFound /\ a.exp.Len = SetTo(0)
    /\ ResultPassed(result)

\* C2: with notfound: true, a get or delete that completes without error is
\* not reported as passed.
C2_NotFoundNeedsAnError ==
    (Evaluated /\ ~a.exp.isNil /\ a.exp.NotFound
       /\ step.action.cmd \in {"get", "delete"} /\ outcome.err = NilErr)
        => ~ResultPassed(result)

\* C3: once the error stage has run on the ResourceUnknown error: with
\* unknown: true the error is cleared and the step passes; without it Eval
\* returns failed with that error as the one recorded failure.
C3_UnknownSwallowedIffExpected ==
    (ErrorStageRan /\ outcome.err = ResourceUnknown) =>
        IF a.exp.Unknown
        THEN /\ a.err = NilErr /\ a.failures = <<>>
             /\ (pc = "done" => ResultPassed(result))
        ELSE /\ pc = "done" /\ ~ResultPassed(result)
             /\ result.failures = <<FailureOfError(ResourceUnknown)>>

C3_Witness ==
    /\ Evaluated /\ outcome.err = ResourceUnknown /\ a.exp.Unknown
    /\ step.action.cmd = "delete" /\ ResultPassed(result)

\* C4: with a non-empty assert.error and an action error that the
\* unknown/notfound rules do not swallow, the step passes if the error's text
\* contains the string and fails if it does not.
C4_ErrorSubstringDecides ==
    (Evaluated /\ ~a.exp.isNil /\ a.exp.Error # <<>>
       /\ outcome.err # NilErr /\ ~Swallowed(outcome.err, a))
        => (ResultPassed(result) <=> Contains(outcome.err.text, a.exp.Error))

\* C5: the stages run in the order error, len, matches, conditions, json,
\* placement; no stage runs after a failing one; and when OK has returned
\* false every failure comes from the last stage run, exactly one of them
\* when that stage is the error stage.
C5_StagesInOrderFirstFailureWins ==
    LET order == <<"error", "len", "matches", "conditions", "json", "placement">>
    IN /\ Len(evaluated) <= Len(order)
       /\ evaluated = SubSeq(order, 1, Len(evaluated))
       /\ (pc = "assert" /\ ~a.exp.isNil => a.failures = <<>>)
       /\ (Evaluated /\ ~a.exp.isNil /\ ~ResultPassed(result)) =>
             /\ result.failures = a.failures
             /\ \A i \in 1..Len(a.failures) :
                    StageOfFailure(a.failures[i]) = evaluated[Len(evaluated)]
             /\ (evaluated = <<"error">> => Len(a.failures) = 1)

C5_Witness ==
    /\ Evaluated /\ ~ResultPassed(result)
    /\ evaluated = <<"error", "len", "matches">>
    /\ a.exp.Conditions.set /\ a.exp.JSON.set

C7_MutatingNeverRetried ==
    /\ Mutating => Retry(step) = NoRetry /\ attempts <= 1
    /\ Retry(step).isNil => step.action.cmd = "get"

\* C7 amended: unless the test spec sets its own retry policy, Spec.Retry()
\* is the no-retry policy for create, apply and delete, whose action is then
\* issued once, and nil for get, which falls back to the plugin's
\* exponential default; a policy set in the test spec is returned as is.
C7_MutatingNotRetriedByDefault ==
    /\ (Mutating /\ step.retry.isNil) => Retry(step) = NoRetry /\ attempts <= 1
    /\ Retry(step).isNil <=> (step.action.cmd = "get" /\ step.retry.isNil)
    /\ Retry(step).isNil => EffectiveRetry(step).Exponential
    /\ ~step.retry.isNil => Retry(step) = step.retry

C7_Witness ==
    /\ Evaluated /\ ~ResultPassed(result) /\ attempts = 1
    /\ step.action.cmd = "create" /\ step.retry.isNil


----------------------------------------------------------------------------
(* SpecGet: Spec.get, the retry loop around Get / List                     *)
(*                                                                         *)
(* The clock counts seconds.  The backoff ticker is the goroutine of       *)
(* backoff.NewTicker over backoff.WithContext(NewExponentialBackOff, ctx): *)
(* it offers the first tick at once, after each delivered tick asks        *)
(* NextBackOff for the next interval (Stop once the context is done) and   *)
(* then waits for the timer or for the context, and closes the channel     *)
(* when it returns.                                                        *)

\* defaultGetTimeout, in seconds
defaultGetTimeout == 5

\* the ticker's first interval and the cap on the growing interval
InitialInterval == 1
MaxInterval == 4

NoDeadline == 0 - 1

\* deadlines a caller's context carries
CtxDeadlines == {NoDeadline, 2}

Only(field, v) == [NilExpect EXCEPT !.isNil = FALSE, ![field] = v]

GetExpects ==
    {NilExpect,
     Only("Len", SetTo(0)), Only("Len", SetTo(MaxLen)),
     Only("NotFound", TRUE), Only("Unknown", TRUE),
     Only("Error", <<"d", "e">>),
     Only("Matches", SetTo(MatchReady)),
     Only("Conditions", SetTo(CondAvailable))}

GetSteps ==
    {[action |-> [cmd |-> "get", named |-> n, file |-> FALSE],
      exp |-> e, retry |-> NilRetry] : n \in BOOLEAN, e \in GetExpects}

InitGet ==
    /\ step \in GetSteps
    /\ cluster \in {c \in Clusters : c.nsExists}
    /\ pc = "resolve"
    /\ outcome = Outcome(NilErr, NilSubject)
    /\ a = newAssertions(step.exp, NilErr, NilSubject)
    /\ evaluated = <<>>
    /\ result = NoResult
    /\ attempts = 0
    /\ hist = <<>>
    /\ now = 0
    /\ deadline \in CtxDeadlines
    /\ ticker = NoTicker

CtxDone_never == FALSE

\* <-ctx.Done() is ready
CtxDone == now >= deadline

\* the randomized interval NextBackOff draws around the current interval
NextRange(iv) ==
    (IF iv \div 2 < 1 THEN 1 ELSE iv \div 2) .. (iv + iv \div 2)

Grow(iv) == IF iv * 2 > MaxInterval THEN MaxInterval ELSE iv * 2

\* Spec.get entering the loop whatever the resolution of the kind gave
GetResolve_noCheck ==
    /\ pc = "resolve"
    /\ \E err \in {NilErr, ResourceUnknown} :
          LET st == OK(newAssertions(step.exp, err, NilSubject), cluster)
          IN /\ outcome' = Outcome(err, NilSubject)
             /\ a' = st.a
             /\ pc' = "loop"
             /\ deadline' = IF deadline = NoDeadline
                            THEN now + defaultGetTimeout ELSE deadline
             /\ ticker' = [state |-> "send", interval |-> InitialInterval,
                           due |-> now, late |-> 0]
             /\ UNCHANGED result
    /\ UNCHANGED <<step, cluster, evaluated, attempts, hist, now>>

\* Spec.get up to the loop: resolve the kind, check the resolution error
\* with newAssertions(s.Assert, err, nil), default the deadline, start the
\* ticker
GetResolve ==
    /\ pc = "resolve"
    /\ \E err \in {NilErr, ResourceUnknown} :
          LET st == OK(newAssertions(step.exp, err, NilSubject), cluster)
          IN /\ outcome' = Outcome(err, NilSubject)
             /\ a' = st.a
             /\ IF ~st.ok
                THEN /\ pc' = "done"
                     /\ result' = ReturnResult(st.a.failures)
                     /\ UNCHANGED <<deadline, ticker>>
                ELSE /\ pc' = "loop"
                     /\ deadline' = IF deadline = NoDeadline
                                    THEN now + defaultGetTimeout ELSE deadline
                     /\ ticker' = [state |-> "send", interval |-> InitialInterval,
                                   due |-> now, late |-> 0]
                     /\ UNCHANGED result
    /\ UNCHANGED <<step, cluster, evaluated, attempts, hist, now>>

\* backOffContext.NextBackOff and the rest of Ticker.send after a tick was
\* delivered: Stop closes the channel, otherwise the timer is started
AfterSend(tk) ==
    IF CtxDone
    THEN {[tk EXCEPT !.state = "closed"]}
    ELSE {[tk EXCEPT !.state = "wait", !.due = now + d,
                     !.interval = Grow(tk.interval)] :
             d \in NextRange(tk.interval)}

\* the loop receives a tick from ticker.C and issues the request
ReceiveTick ==
    /\ pc = "loop"
    /\ ticker.state = "send"
    /\ pc' = "request"
    /\ attempts' = attempts + 1
    /\ \E tk \in AfterSend(ticker) :
          ticker' = [tk EXCEPT !.late = IF CtxDone THEN @ + 1 ELSE @]
    /\ UNCHANGED <<step, cluster, outcome, a, evaluated, result, hist, now,
                   deadline>>

\* Ticker.run: the timer fired, the next tick is offered on the channel
TimerFires ==
    /\ ticker.state = "wait"
    /\ now >= ticker.due
    /\ ticker' = [ticker EXCEPT !.state = "send"]
    /\ UNCHANGED <<step, pc, cluster, outcome, a, evaluated, result, attempts,
                   hist, now, deadline>>

\* Ticker.run: the context is done, the goroutine returns and closes the
\* channel
TickerCtxDone ==
    /\ ticker.state = "wait"
    /\ CtxDone
    /\ ticker' = [ticker EXCEPT !.state = "closed"]
    /\ UNCHANGED <<step, pc, cluster, outcome, a, evaluated, result, attempts,
                   hist, now, deadline>>

\* what doList / doGet come back with: the context's error once the context
\* is done; on an error the typed nil pointer is what newAssertions receives
Responses(act) ==
    LET kind == IF act.named THEN "obj" ELSE "list"
    IN IF CtxDone THEN {Outcome(ContextDeadlineExceeded, TypedNil(kind))}
       ELSE {Outcome(e, TypedNil(kind)) : e \in ClientErrors}
            \cup IF act.named
                 THEN {Outcome(NilErr, ObjSubject(d)) : d \in Docs}
                 ELSE {Outcome(NilErr, ListSubject(n)) : n \in 0..MaxItems}

AttemptAssertions_accumulate(prev, o) ==
    [newAssertions(step.exp, o.err, o.out) EXCEPT !.failures = prev.failures]

\* the assertions object of one attempt
AttemptAssertions(prev, o) == newAssertions(step.exp, o.err, o.out)

\* the loop body without the break on success
Attempt_noBreak ==
    /\ pc = "request"
    /\ \E o \in Responses(step.action) :
          LET st == OK(AttemptAssertions(a, o), cluster)
          IN /\ outcome' = o
             /\ a' = st.a
             /\ hist' = Append(hist, st.ok)
             /\ IF st.panic
                THEN pc' = "panic" /\ UNCHANGED <<result, ticker>>
                ELSE pc' = "loop" /\ UNCHANGED <<result, ticker>>
    /\ UNCHANGED <<step, cluster, evaluated, attempts, now, deadline>>

\* doList / doGet return, a.OK() is evaluated; success stops the ticker and
\* leaves the loop
Attempt ==
    /\ pc = "request"
    /\ \E o \in Responses(step.action) :
          LET st == OK(AttemptAssertions(a, o), cluster)
          IN /\ outcome' = o
             /\ a' = st.a
             /\ hist' = Append(hist, st.ok)
             /\ IF st.panic
                THEN pc' = "panic" /\ UNCHANGED <<result, ticker>>
                ELSE IF st.ok
                THEN /\ pc' = "done"
                     /\ ticker' = [ticker EXCEPT !.state = "stopped"]
                     /\ result' = ReturnResult(st.a.failures)
                ELSE pc' = "loop" /\ UNCHANGED <<result, ticker>>
    /\ UNCHANGED <<step, cluster, evaluated, attempts, now, deadline>>

\* range ticker.C ends because the channel was closed: the result is built
\* from the assertions of the last attempt
LoopEnds ==
    /\ pc = "loop"
    /\ ticker.state = "closed"
    /\ pc' = "done"
    /\ result' = ReturnResult(a.failures)
    /\ UNCHANGED <<step, cluster, outcome, a, evaluated, attempts, hist, now,
                   deadline, ticker>>

\* a second passes
Tick ==
    /\ pc \in {"loop", "request"}
    /\ now < MaxTime
    /\ now' = now + 1
    /\ UNCHANGED <<step, pc, cluster, outcome, a, evaluated, result, attempts,
                   hist, deadline, ticker>>

NextGet ==
    \/ GetResolve
    \/ ReceiveTick
    \/ TimerFires
    \/ TickerCtxDone
    \/ Attempt
    \/ LoopEnds
    \/ Tick

SpecGet == InitGet /\ [][NextGet]_vars

\* the goroutines are scheduled, requests return, and time passes
FairGet ==
    /\ SpecGet
    /\ WF_vars(GetResolve) /\ WF_vars(ReceiveTick) /\ WF_vars(TimerFires)
    /\ WF_vars(TickerCtxDone) /\ WF_vars(Attempt) /\ WF_vars(LoopEnds)
    /\ WF_vars(Tick)


----------------------------------------------------------------------------
(* Properties of the retried get                                           *)

\* the loop was left because the ticker's channel was closed, that is, the
\* deadline fired or the context was cancelled before an attempt succeeded
TimedOut == pc = "done" /\ ticker.state = "closed"

\* the last response, evaluated on its own
LastAttempt == OK(newAssertions(step.exp, outcome.err, outcome.out), cluster)

\* C8: the result of a retried get holds the failures of the last attempt
\* only: a get that fails some attempts and then succeeds reports no failure,
\* and a get that never succeeds reports what the final attempt recorded.
C8_LastAttemptOnly ==
    (pc = "done" /\ attempts >= 1) =>
        /\ Len(hist) = attempts
        /\ result.failures = LastAttempt.a.failures
        /\ (hist[attempts] => ResultPassed(result))
        /\ (~hist[attempts] => result.failures # <<>>)

C8_Witness ==
    /\ pc = "done"
    /\ hist = <<FALSE, FALSE, TRUE>>
    /\ ResultPassed(result)

\* C9: when the deadline fires or the context is cancelled before any attempt
\* succeeded, the step resolves to the timeout failure, distinguished from an
\* assertion failure, and never passes.
C9_TimeoutIsDistinguished ==
    TimedOut => (~ResultPassed(result) /\ result.failures = <<TimeoutFailure>>)

\* C10: the retry loop of get always terminates, and once the deadline has
\* passed at most the one tick that was already on offer starts an attempt.
C10_GetTerminates ==
    /\ <>(pc \in {"done", "panic"})
    /\ [](ticker.late <= 1)

C10_Witness ==
    /\ TimedOut
    /\ attempts >= 2
    /\ ticker.late = 1


\* requests issued whose response has not been evaluated yet
InFlight == attempts - Len(hist)

\* C11: within one get retry loop the attempts are totally ordered and never
\* overlap: a request is in flight only while every earlier attempt has been
\* evaluated and found failing, and no request follows an attempt whose
\* assertions passed.
C11_AttemptsTotallyOrdered ==
    /\ InFlight \in {0, 1}
    /\ InFlight = 1 <=> pc = "request"
    /\ pc = "request" => \A i \in 1..Len(hist) : ~hist[i]
    /\ \A i \in 1..Len(hist) :
          hist[i] => i = Len(hist) /\ i = attempts /\ pc \in {"done", "panic"}

C11_Witness ==
    /\ pc = "request"
    /\ attempts = 3
    /\ hist = <<FALSE, FALSE>>

\* the kind of the get did not resolve and no response replaced that error
Unresolved == pc # "resolve" /\ outcome.err = ResourceUnknown

----------------------------------------------------------------------------
(* SpecMatches: assertions.matchesOK on expected and actual documents      *)

\* integers the documents carry
Ints == {0 - 1, 2, 10}

\* a matches object is decoded from yaml (int); a resource is decoded from
\* JSON (int64) or built from Go values (int)
MatchIntTypes == {"int"}
SubjectIntTypes == {"int", "int64"}

LeafStrings == {<<"a">>} \cup {Itoa(n) : n \in Ints}

MatchLeaves ==
    {IntV(t, n) : t \in MatchIntTypes, n \in Ints}
    \cup {StrV(x) : x \in LeafStrings} \cup {BoolV(TRUE)}

SubjectLeaves ==
    {IntV(t, n) : t \in SubjectIntTypes, n \in Ints}
    \cup {StrV(x) : x \in LeafStrings} \cup {BoolV(TRUE)}

\* the elements sequences are built from
MatchElems == {IntV("int", 2), StrV(<<"a">>)}
SubjectElems == {IntV("int64", 2), StrV(<<"a">>), StrV(<<"b">>)}

SeqsUpTo(S, n) == UNION {[1..k -> S] : k \in 0..n}

MatchValues ==
    MatchLeaves \cup {ListV(l) : l \in SeqsUpTo(MatchElems, MaxItems)}

SubjectValues ==
    SubjectLeaves \cup {ListV(l) : l \in SeqsUpTo(SubjectElems, MaxItems)}

\* matches: {status: {readyReplicas: v}}
MatchDocs == {MapV([status |-> MapV([readyReplicas |-> v])]) : v \in MatchValues}

\* resources with no status, with an empty status, with status.readyReplicas
\* alone and with more keys next to it
SubjectDocs ==
    {MapV([kind |-> StrV(sDeployment)]),
     MapV([kind |-> StrV(sDeployment), status |-> EmptyMap])}
    \cup {MapV([status |-> MapV([readyReplicas |-> v])]) : v \in SubjectValues}
    \cup {MapV([kind |-> StrV(sDeployment),
                status |-> MapV([readyReplicas |-> v,
                                 replicas |-> IntV("int64", 3)])]) :
             v \in SubjectValues}

GetByName == [cmd |-> "get", named |-> TRUE, file |-> FALSE]

InitMatches ==
    /\ \E e \in MatchDocs :
          step = [action |-> GetByName, exp |-> Only("Matches", SetTo(e)),
                  retry |-> NilRetry]
    /\ \E d \in SubjectDocs : outcome = Outcome(NilErr, ObjSubject(d))
    /\ cluster \in {c \in Clusters : c.nsExists /\ PodOn("p2", "n2") \in c.pods}
    /\ pc = "assert"
    /\ a = newAssertions(step.exp, outcome.err, outcome.out)
    /\ evaluated = <<>>
    /\ result = NoResult
    /\ attempts = 1
    /\ hist = <<>>
    /\ now = 0
    /\ deadline = 0
    /\ ticker = NoTicker

\* a.matchesOK(ctx) and the Result built from a.Failures()
Matches ==
    /\ pc = "assert"
    /\ LET st == matchesOK(a)
       IN /\ a' = st.a
          /\ evaluated' = Append(evaluated, "matches")
          /\ IF st.panic THEN pc' = "panic" /\ UNCHANGED result
             ELSE pc' = "done" /\ result' = ReturnResult(st.a.failures)
    /\ UNCHANGED <<step, cluster, outcome, attempts, hist, now, deadline,
                   ticker>>

NextMatches == Matches

SpecMatches == InitMatches /\ [][NextMatches]_vars


----------------------------------------------------------------------------
(* Properties of the document comparison                                   *)

MatchesRan == pc \in {"done", "panic"} /\ evaluated = <<"matches">>

\* the value the matches object expects at status.readyReplicas and the
\* value the resource has there
ExpectedLeaf == step.exp.Matches.v.kv.status.kv.readyReplicas
HasStatus == "status" \in DOMAIN outcome.out.doc.kv
HasLeaf == HasStatus /\ "readyReplicas" \in DOMAIN outcome.out.doc.kv.status.kv
ActualLeaf == outcome.out.doc.kv.status.kv.readyReplicas

ReadyReplicasPath == <<"$", ".", "status", ".", "readyReplicas">>

\* every key of e is in d at every level and the shared leaves are equal
RECURSIVE Covers(_, _)
Covers(e, d) ==
    CASE e.t = "map" ->
            /\ d.t = "map"
            /\ \A k \in DOMAIN e.kv :
                  k \in DOMAIN d.kv /\ Covers(e.kv[k], d.kv[k])
      [] e.t = "list" ->
            /\ d.t = "list" /\ Len(e.l) = Len(d.l)
            /\ \A i \in 1..Len(e.l) : Covers(e.l[i], d.l[i])
      [] e.t \in IntTypes -> d.t \in IntTypes /\ d.n = e.n
      [] e.t = "string" -> d.t = "string" /\ d.s = e.s
      [] OTHER -> e = d

\* C13: partial match: when every key of the expected document is in the
\* actual document at every level and every shared leaf is equal, the
\* comparison yields no difference, whatever other keys the actual document
\* has.
C13_PartialMatch ==
    (MatchesRan /\ Covers(step.exp.Matches.v, outcome.out.doc)) =>
        pc = "done" /\ a.failures = <<>> /\ ResultPassed(result)

C13_Witness ==
    /\ MatchesRan /\ ResultPassed(result)
    /\ Covers(step.exp.Matches.v, outcome.out.doc)
    /\ ExpectedLeaf = IntV("int", 2) /\ ActualLeaf = IntV("int64", 2)
    /\ "replicas" \in DOMAIN outcome.out.doc.kv.status.kv
    /\ "kind" \in DOMAIN outcome.out.doc.kv

\* C14 as stated: {status: {readyReplicas: 2}} against a document with no
\* status key yields the one entry "$.status.readyReplicas not present in
\* subject".
C14_MissingStatusNamesLeaf ==
    (MatchesRan /\ step.exp.Matches.v = MatchReady /\ ~HasStatus) =>
        a.failures = <<MatchesNotEqual(ReadyReplicasPath \o <<NotPresent>>)>>

\* C14 amended: {status: {readyReplicas: 2}} against a document with no
\* status key yields the one entry "$.status not present in subject"; the
\* entry "$.status.readyReplicas not present in subject" is the one entry
\* when status is there without readyReplicas.
C14_MissingKeyNamedWhereMissing ==
    (MatchesRan /\ step.exp.Matches.v = MatchReady) =>
        /\ ~HasStatus =>
              a.failures =
                  <<MatchesNotEqual(<<"$", ".", "status", NotPresent>>)>>
        /\ (HasStatus /\ ~HasLeaf) =>
              a.failures =
                  <<MatchesNotEqual(ReadyReplicasPath \o <<NotPresent>>)>>

C14_Witness ==
    /\ MatchesRan /\ step.exp.Matches.v = MatchReady /\ ~HasStatus
    /\ pc = "done"
    /\ result.failures = <<MatchesNotEqual(<<"$", ".", "status", NotPresent>>)>>

\* C15: an expected sequence against an actual sequence of another length
\* adds exactly one difference for that node, and the elements are not
\* compared.
C15_UnequalLengthsOneDifference ==
    (MatchesRan /\ HasLeaf /\ ExpectedLeaf.t = "list" /\ ActualLeaf.t = "list"
        /\ Len(ExpectedLeaf.l) # Len(ActualLeaf.l)) =>
        a.failures =
            <<MatchesNotEqual(ReadyReplicasPath \o <<DifferentLengths>>)>>

C15_Witness ==
    /\ MatchesRan /\ HasLeaf
    /\ ExpectedLeaf = ListV(<<IntV("int", 2), StrV(<<"a">>)>>)
    /\ ActualLeaf = ListV(<<StrV(<<"b">>)>>)
    /\ Len(a.failures) = 1

\* C16: type coercion is symmetric: expected integer n against the actual
\* string of its decimal digits yields no difference, and the expected
\* string against the actual integer n, of whatever width the document
\* carries, yields no difference either.
C16_CoercionSymmetric ==
    (MatchesRan /\ HasLeaf /\
        \E n \in Ints :
           \/ ExpectedLeaf.t \in IntTypes /\ ExpectedLeaf.n = n
              /\ ActualLeaf = StrV(Itoa(n))
           \/ ExpectedLeaf = StrV(Itoa(n))
              /\ ActualLeaf.t \in IntTypes /\ ActualLeaf.n = n) =>
        pc = "done" /\ a.failures = <<>> /\ ResultPassed(result)


----------------------------------------------------------------------------
(* SpecConditions: assertions.conditionsOK on expected and actual          *)
(* conditions                                                              *)

\* spellings of one condition type and of another type
TypeSpellings == {<<"u", "p">>, <<"U", "p">>, <<"U", "P">>}
OtherType == <<"D", "n">>

\* spellings of the status true, and another status
TrueSpellings == {<<"t", "r", "u", "e">>, sTrue, <<"T", "R", "U", "E">>}

\* reasons
sOk == <<"O", "k">>
Reasons == {sOk, <<"o", "k">>, <<"N", "o">>}

\* conditions: {<type>: <status>} and {<type>: {status: ..., reason: ...}}
ConditionExpects ==
    {[t \in {ty} |-> ConditionMatch(hs, <<sv>>, r)] :
        ty \in TypeSpellings, hs \in BOOLEAN, sv \in TrueSpellings,
        r \in {<<>>, sOk}}

\* resources with one condition, and one without conditions
ConditionDocs ==
    {MapV([status |-> MapV([conditions |-> ListV(<<Condition(ty, st, r)>>)])]) :
        ty \in TypeSpellings \cup {OtherType},
        st \in TrueSpellings \cup {sFalse, <<>>},
        r \in Reasons}
    \cup {MapV([status |-> EmptyMap])}

InitConditions ==
    /\ \E e \in ConditionExpects :
          step = [action |-> GetByName, exp |-> Only("Conditions", SetTo(e)),
                  retry |-> NilRetry]
    /\ \E d \in ConditionDocs : outcome = Outcome(NilErr, ObjSubject(d))
    /\ cluster \in {c \in Clusters : c.nsExists /\ PodOn("p2", "n2") \in c.pods}
    /\ pc = "assert"
    /\ a = newAssertions(step.exp, outcome.err, outcome.out)
    /\ evaluated = <<>>
    /\ result = NoResult
    /\ attempts = 1
    /\ hist = <<>>
    /\ now = 0
    /\ deadline = 0
    /\ ticker = NoTicker

\* a.conditionsOK() and the Result built from a.Failures()
Conditions ==
    /\ pc = "assert"
    /\ LET st == conditionsOK(a)
       IN /\ a' = st.a
          /\ evaluated' = Append(evaluated, "conditions")
          /\ IF st.panic THEN pc' = "panic" /\ UNCHANGED result
             ELSE pc' = "done" /\ result' = ReturnResult(st.a.failures)
    /\ UNCHANGED <<step, cluster, outcome, attempts, hist, now, deadline,
                   ticker>>

NextConditions == Conditions

SpecConditions == InitConditions /\ [][NextConditions]_vars

----------------------------------------------------------------------------
(* Properties of the condition comparison                                  *)

ConditionsRan == pc \in {"done", "panic"} /\ evaluated = <<"conditions">>

\* the one expected condition type, its match, and the conditions of the
\* resource
ExpectedType == CHOOSE t \in DOMAIN step.exp.Conditions.v : TRUE
ExpectedMatch == step.exp.Conditions.v[ExpectedType]
HasConditions == "conditions" \in DOMAIN outcome.out.doc.kv.status.kv
ActualCondition == outcome.out.doc.kv.status.kv.conditions.l[1].kv

\* the same letters, upper or lower case
SameUpToCase(x, y) ==
    /\ Len(x) = Len(y)
    /\ \A i \in 1..Len(x) :
          \/ x[i] = y[i]
          \/ \E j \in 1..26 : {x[i], y[i]} = {UpperChars[j], LowerChars[j]}

\* the actual condition is of the expected type and its status is accepted
StatusSatisfied ==
    /\ HasConditions
    /\ SameUpToCase(ExpectedType, ActualCondition.type.s)
    /\ ExpectedMatch.hasStatus =>
          /\ ActualCondition.status.s # <<>>
          /\ \E i \in 1..Len(ExpectedMatch.Status) :
                SameUpToCase(ExpectedMatch.Status[i], ActualCondition.status.s)

\* C17: condition matching is case-insensitive on type and status: whatever
\* the casing of the expected type and status, an actual condition whose
\* type and status are the same strings up to case yields no difference.
C17_ConditionsCaseInsensitive ==
    (ConditionsRan /\ ExpectedMatch.hasStatus /\ ExpectedMatch.Reason = <<>>
        /\ StatusSatisfied) =>
        pc = "done" /\ a.failures = <<>> /\ ResultPassed(result)

C17_Witness ==
    /\ ConditionsRan /\ ResultPassed(result)
    /\ ExpectedType = <<"u", "p">> /\ ExpectedMatch.hasStatus
    /\ ExpectedMatch.Status = <<<<"T", "R", "U", "E">>>>
    /\ HasConditions
    /\ ActualCondition.type.s = <<"U", "p">>
    /\ ActualCondition.status.s = sTrue

\* C18: for an expected condition that names a reason and whose status
\* expectation the actual condition of that type satisfies, the delta holds
\* a reason-mismatch entry iff the actual reason is not exactly the expected
\* reason, and that entry is the only one for the condition type.
C18_ReasonExact ==
    (ConditionsRan /\ ExpectedMatch.Reason # <<>> /\ StatusSatisfied) =>
        /\ pc = "done"
        /\ a.failures =
              IF ActualCondition.reason.s # ExpectedMatch.Reason
              THEN <<ConditionDoesNotMatch(ExpectedType \o <<HadReason>>)>>
              ELSE <<>>

C18_Witness ==
    /\ ConditionsRan /\ StatusSatisfied /\ ExpectedMatch.hasStatus
    /\ ExpectedMatch.Reason = sOk
    /\ ActualCondition.reason.s = <<"o", "k">>
    /\ result.failures =
          <<ConditionDoesNotMatch(ExpectedType \o <<HadReason>>)>>


----------------------------------------------------------------------------
(* SpecPlacement: assertions.placementOK on a cluster of labelled nodes    *)
(* and pods                                                                *)

\* three nodes, two of them in the same zone; every node has its own host
\* label
Nodes3 ==
    [n1 |-> [zone |-> "a", host |-> "h1"],
     n2 |-> [zone |-> "a", host |-> "h2"],
     n3 |-> [zone |-> "b", host |-> "h3"]]

\* a pod with its app label
LabelledPod(name, node, app) ==
    [name |-> name, ns |-> sNs, nodename |-> node, app |-> app]

AppLabels == {"web", "db"}

PlacementClusters ==
    {[nsExists |-> TRUE, nodes |-> Nodes3,
      pods |-> {LabelledPod("p1", f[1][1], f[1][2]),
                LabelledPod("p2", f[2][1], f[2][2]),
                LabelledPod("p3", f[3][1], f[3][2])}] :
        f \in [1..3 -> (DOMAIN Nodes3) \X AppLabels]}

\* a workload whose spec.selector.matchLabels is {app: web}
Owner(kind) ==
    MapV([kind |-> StrV(kind),
          metadata |-> MapV([namespace |-> StrV(sNs)]),
          spec |-> MapV([selector |->
                     MapV([matchLabels |-> MapV([app |-> StrV(<<"web">>)])])])])

\* a StatefulSet document without a selector
BareStatefulSet ==
    MapV([kind |-> StrV(sStatefulSet),
          metadata |-> MapV([namespace |-> StrV(sNs)])])

Owners == {Owner(sDeployment), Owner(sStatefulSet), BareStatefulSet, PodDoc}

\* placement: {spread: <topology key>}
Spreads ==
    {[Spread |-> SetTo({k}), Pack |-> Unset({})] : k \in {"zone", "host", "rack"}}

InitPlacement ==
    /\ \E p \in Spreads :
          step = [action |-> GetByName, exp |-> Only("Placement", SetTo(p)),
                  retry |-> NilRetry]
    /\ \E d \in Owners : outcome = Outcome(NilErr, ObjSubject(d))
    /\ cluster \in PlacementClusters
    /\ pc = "assert"
    /\ a = newAssertions(step.exp, outcome.err, outcome.out)
    /\ evaluated = <<>>
    /\ result = NoResult
    /\ attempts = 1
    /\ hist = <<>>
    /\ now = 0
    /\ deadline = 0
    /\ ticker = NoTicker

\* a.placementOK(ctx) and the Result built from a.Failures()
Placement ==
    /\ pc = "assert"
    /\ LET st == placementOK(a, cluster)
       IN /\ a' = st.a
          /\ evaluated' = Append(evaluated, "placement")
          /\ IF st.panic THEN pc' = "panic" /\ UNCHANGED result
             ELSE pc' = "done" /\ result' = ReturnResult(st.a.failures)
    /\ UNCHANGED <<step, cluster, outcome, attempts, hist, now, deadline,
                   ticker>>

NextPlacement == Placement

SpecPlacement == InitPlacement /\ [][NextPlacement]_vars

----------------------------------------------------------------------------
(* Properties of the placement assertion                                   *)

PlacementRan == pc \in {"done", "panic"} /\ evaluated = <<"placement">>

OwnerDoc == outcome.out.doc
TopologyKeys == step.exp.Placement.v.Spread.v

HasSelector == HasMatchLabels(OwnerDoc)

\* the pods of the owner's namespace that carry the owner's matchLabels
SelectedPods ==
    {p \in cluster.pods :
        /\ p.ns = GetNamespace(OwnerDoc)
        /\ <<p.app>> = <<"web">>}

\* the domains of topology key k: the values the nodes' label k takes
DomainsOf(k) ==
    {cluster.nodes[n][k] : n \in {m \in DOMAIN cluster.nodes :
                                     k \in DOMAIN cluster.nodes[m]}}

\* the pods among ps that are scheduled in domain dom of key k
PodsInDomain(ps, k, dom) ==
    {p \in ps : /\ p.nodename \in DOMAIN cluster.nodes
                /\ k \in DOMAIN cluster.nodes[p.nodename]
                /\ cluster.nodes[p.nodename][k] = dom}

\* max - min of the per-domain pod counts
DomainSkew(ps, k) ==
    LET counts == {Cardinality(PodsInDomain(ps, k, dom)) : dom \in DomainsOf(k)}
    IN SetMax(counts) - SetMin(counts)

\* C19: the spread assertion groups the nodes into domains by the value of
\* the topology-key label, counts the pods in each domain, and passes iff
\* for every topology key with at least one domain the largest count minus
\* the smallest is at most 1.  (The pods are those the assertion lists.)
C19_SpreadByLabelValue ==
    (PlacementRan /\ pc = "done") =>
        (ResultPassed(result) <=>
            \A k \in TopologyKeys :
               DomainsOf(k) # {} =>
                  DomainSkew(getPods(cluster, OwnerDoc).pods, k) <= 1)

\* C20: the pods the placement assertion counts are exactly the pods of the
\* owner's namespace that match spec.selector.matchLabels, for a Deployment
\* as for a StatefulSet.
C20_CountsSelectedPods ==
    (PlacementRan /\ HasSelector) =>
        /\ pc = "done"
        /\ getPods(cluster, OwnerDoc).pods = SelectedPods

----------------------------------------------------------------------------
(* Parsing a test spec: Spec.UnmarshalYAML and the unmarshalers it calls.   *)
(* In SpecParse and SpecIdentifier the variable step holds the yaml node of *)
(* the test spec, cluster the files that exist where the parser runs, and   *)
(* result what the parser returned.                                         *)

MaxFields == 3      \* most fields of a test spec's mapping node
MaxSpecLen == 3     \* longest enumerated resource specifier

\* yaml.Node: Kind, Value, and Content as key/value pairs
Scalar(v) == [kind |-> "scalar", value |-> v, content |-> <<>>]
Mapping(fields) == [kind |-> "mapping", value |-> <<>>, content |-> fields]
SequenceNode == [kind |-> "sequence", value |-> <<>>, content |-> <<>>]
Field(k, v) == [key |-> k, val |-> v]

\* strings.ContainsAny, strings.Count, strings.Cut
ContainsAny(s, chars) == \E i \in 1..Len(s) : s[i] \in chars
Count(s, c) == Cardinality({i \in 1..Len(s) : s[i] = c})
Cut(s, sep) ==
    IF \E i \in 1..Len(s) : s[i] = sep
    THEN LET i == CHOOSE k \in 1..Len(s) :
                     s[k] = sep /\ \A j \in 1..(k - 1) : s[j] # sep
         IN [before |-> SubSeq(s, 1, i - 1), after |-> SubSeq(s, i + 1, Len(s))]
    ELSE [before |-> s, after |-> <<>>]

\* the messages of the parse errors
NoParseError == "nil"
EitherShortcutOrKubeSpecAt ==
    "either specify a full KubeSpec in the kube field or specify one of the shortcuts"
MoreThanOneKubeActionAt ==
    "you may only specify a single Kubernetes action field"
InvalidResourceSpecifierAt == "invalid resource specifier"
InvalidResourceSpecifierOrFilepathAt == "invalid resource specifier or filepath"
FileNotFoundAt == "file not found"
ExpectedScalarAt == "expected scalar"
ExpectedMapAt == "expected map"
ExpectedScalarOrMapAt == "expected scalar or map"
UnknownFieldAt == "unknown field"

probablyFilePath(subject) ==
    IF ContainsAny(subject, {" ", ":", "\n", "\r", "\t"}) THEN FALSE
    ELSE ContainsAny(subject, {"."})

fileExists(path, files) == path \in files

splitArgName(subject) ==
    LET c == Cut(subject, "/") IN [Arg |-> c.before, Name |-> c.after]

\* *ResourceIdentifier and *ResourceIdentifierOrFile
NilIdentifier == [nil |-> TRUE, fp |-> <<>>, Arg |-> <<>>, Name |-> <<>>]
Identifier(fp, arg, name) == [nil |-> FALSE, fp |-> fp, Arg |-> arg, Name |-> name]

Parsed(v) == [err |-> NoParseError, v |-> v]
Rejected(e, v) == [err |-> e, v |-> v]

\* resourceIdentifierWithSelector.UnmarshalYAML: one key of the node; the
\* label keys, which set neither Type nor Name, are not among the keys of
\* the nodes of the model
selectorField(key, valNode, ri) ==
    CASE key = "type" ->
            IF valNode.kind # "scalar" THEN Rejected(ExpectedScalarAt, ri)
            ELSE Parsed([ri EXCEPT !.Type = valNode.value])
      [] key = "name" ->
            IF valNode.kind # "scalar" THEN Rejected(ExpectedScalarAt, ri)
            ELSE Parsed([ri EXCEPT !.Name = valNode.value])
      [] OTHER -> Rejected(UnknownFieldAt, ri)

RECURSIVE selectorFields(_, _, _)
selectorNext(r, content, i) ==
    IF r.err # NoParseError THEN r ELSE selectorFields(content, i + 1, r.v)

selectorFields(content, i, ri) ==
    IF i > Len(content) THEN Parsed(ri)
    ELSE selectorNext(selectorField(content[i].key, content[i].val, ri),
                      content, i)

resourceIdentifierWithSelector(node) ==
    IF node.kind # "mapping"
    THEN Rejected(ExpectedMapAt, [Type |-> <<>>, Name |-> <<>>])
    ELSE selectorFields(node.content, 1, [Type |-> <<>>, Name |-> <<>>])

\* r.Arg, r.Name = splitArgName(s)
fromArgName(an) == Parsed(Identifier(<<>>, an.Arg, an.Name))

\* r.Arg = ri.Type; r.Name = ri.Name
fromSelector(ri) ==
    IF ri.err # NoParseError THEN Rejected(ri.err, NilIdentifier)
    ELSE Parsed(Identifier(<<>>, ri.v.Type, ri.v.Name))

\* ResourceIdentifier.UnmarshalYAML
ResourceIdentifier(node) ==
    IF node.kind # "scalar" /\ node.kind # "mapping"
    THEN Rejected(ExpectedScalarOrMapAt, NilIdentifier)
    ELSE IF node.kind = "scalar"
    THEN IF ContainsAny(node.value, {" ", ",", ";", "\n", "\t", "\r"})
         THEN Rejected(InvalidResourceSpecifierAt, NilIdentifier)
         ELSE IF Count(node.value, "/") > 1
         THEN Rejected(InvalidResourceSpecifierAt, NilIdentifier)
         ELSE fromArgName(splitArgName(node.value))
    ELSE fromSelector(resourceIdentifierWithSelector(node))

\* ResourceIdentifierOrFile.UnmarshalYAML
ResourceIdentifierOrFile(node, files) ==
    IF node.kind # "scalar" /\ node.kind # "mapping"
    THEN Rejected(ExpectedScalarOrMapAt, NilIdentifier)
    ELSE IF node.kind = "scalar"
    THEN IF probablyFilePath(node.value)
         THEN IF ~fileExists(node.value, files)
              THEN Rejected(FileNotFoundAt, NilIdentifier)
              ELSE Parsed(Identifier(node.value, <<>>, <<>>))
         ELSE IF ContainsAny(node.value, {" ", ",", ";", "\n", "\t", "\r"})
         THEN Rejected(InvalidResourceSpecifierOrFilepathAt, NilIdentifier)
         ELSE IF Count(node.value, "/") > 1
         THEN Rejected(InvalidResourceSpecifierOrFilepathAt, NilIdentifier)
         ELSE fromArgName(splitArgName(node.value))
    ELSE fromSelector(resourceIdentifierWithSelector(node))

\* *KubeSpec with its embedded Action
NilKubeSpec ==
    [nil |-> TRUE, Config |-> <<>>, Get |-> NilIdentifier, Create |-> <<>>,
     Apply |-> <<>>, Delete |-> NilIdentifier]
EmptyKubeSpec == [NilKubeSpec EXCEPT !.nil = FALSE]

\* a.Get = v, a.Delete = v after valNode.Decode(&v)
setGet(v, act) ==
    IF v.err # NoParseError THEN Rejected(v.err, act)
    ELSE Parsed([act EXCEPT !.Get = v.v])
setDelete(v, act) ==
    IF v.err # NoParseError THEN Rejected(v.err, act)
    ELSE Parsed([act EXCEPT !.Delete = v.v])

moreThanOneAction_never(act) == FALSE

moreThanOneAction(act) ==
    LET foundActions ==
            (IF ~act.Get.nil THEN 1 ELSE 0)
          + (IF act.Create # <<>> THEN 1 ELSE 0)
          + (IF act.Apply # <<>> THEN 1 ELSE 0)
          + (IF ~act.Delete.nil THEN 1 ELSE 0)
    IN foundActions > 1

\* the switch of Action.UnmarshalYAML
actionField(key, valNode, act, files) ==
    CASE key \in {"apply", "create"} ->
            IF valNode.kind # "scalar" THEN Rejected(ExpectedScalarAt, act)
            ELSE IF probablyFilePath(valNode.value)
                    /\ ~fileExists(valNode.value, files)
            THEN Rejected(FileNotFoundAt, act)
            ELSE IF key = "apply"
            THEN Parsed([act EXCEPT !.Apply = valNode.value])
            ELSE Parsed([act EXCEPT !.Create = valNode.value])
      [] key = "get" ->
            IF valNode.kind \notin {"scalar", "mapping"}
            THEN Rejected(ExpectedScalarOrMapAt, act)
            ELSE setGet(ResourceIdentifier(valNode), act)
      [] key = "delete" ->
            IF valNode.kind \notin {"scalar", "mapping"}
            THEN Rejected(ExpectedScalarOrMapAt, act)
            ELSE setDelete(ResourceIdentifierOrFile(valNode, files), act)
      [] OTHER -> Parsed(act)

\* the loop of Action.UnmarshalYAML
RECURSIVE actionFields(_, _, _, _)
actionNext(r, content, i, files) ==
    IF r.err # NoParseError THEN r
    ELSE actionFields(content, i + 1, r.v, files)

actionFields(content, i, act, files) ==
    IF i > Len(content) THEN Parsed(act)
    ELSE actionNext(actionField(content[i].key, content[i].val, act, files),
                    content, i, files)

\* the end of Action.UnmarshalYAML
actionChecked(r) ==
    IF r.err # NoParseError THEN r
    ELSE IF moreThanOneAction(r.v) THEN Rejected(MoreThanOneKubeActionAt, r.v)
    ELSE r

\* Action.UnmarshalYAML
ActionUnmarshalYAML(node, act, files) ==
    IF node.kind # "mapping" THEN Rejected(ExpectedMapAt, act)
    ELSE actionChecked(actionFields(node.content, 1, act, files))

\* the switch of KubeSpec.UnmarshalYAML
kubeSpecField(key, valNode, ks, files) ==
    CASE key = "config" ->
            IF valNode.kind # "scalar" THEN Rejected(ExpectedScalarAt, ks)
            ELSE IF ~fileExists(valNode.value, files)
            THEN Rejected(FileNotFoundAt, ks)
            ELSE Parsed([ks EXCEPT !.Config = valNode.value])
      [] key \in {"context", "namespace"} ->
            IF valNode.kind # "scalar" THEN Rejected(ExpectedScalarAt, ks)
            ELSE Parsed(ks)
      [] key \in {"get", "create", "apply", "delete"} -> Parsed(ks)
      [] OTHER -> Rejected(UnknownFieldAt, ks)

\* the loop of KubeSpec.UnmarshalYAML
RECURSIVE kubeSpecFields(_, _, _, _)
kubeSpecNext(r, content, i, files) ==
    IF r.err # NoParseError THEN r
    ELSE kubeSpecFields(content, i + 1, r.v, files)

kubeSpecFields(content, i, ks, files) ==
    IF i > Len(content) THEN Parsed(ks)
    ELSE kubeSpecNext(kubeSpecField(content[i].key, content[i].val, ks, files),
                      content, i, files)

\* the end of KubeSpec.UnmarshalYAML: node.Decode(&a)
kubeSpecAction(r, node, files) ==
    IF r.err # NoParseError THEN r
    ELSE ActionUnmarshalYAML(node, r.v, files)

\* KubeSpec.UnmarshalYAML
KubeSpecUnmarshalYAML(node, files) ==
    IF node.kind # "mapping" THEN Rejected(ExpectedMapAt, NilKubeSpec)
    ELSE kubeSpecAction(kubeSpecFields(node.content, 1, EmptyKubeSpec, files),
                        node, files)

\* the first switch of Spec.UnmarshalYAML: the shortcut fields
shortcutField(key, valNode, ks, files) ==
    CASE key = "kube.get" ->
            IF valNode.kind \notin {"scalar", "mapping"}
            THEN Rejected(ExpectedScalarAt, ks)
            ELSE IF ~ks.nil THEN Rejected(MoreThanOneKubeActionAt, ks)
            ELSE setGet(ResourceIdentifier(valNode), EmptyKubeSpec)
      [] key = "kube.create" ->
            IF valNode.kind # "scalar" THEN Rejected(ExpectedScalarAt, ks)
            ELSE IF ~ks.nil THEN Rejected(MoreThanOneKubeActionAt, ks)
            ELSE IF probablyFilePath(valNode.value)
                    /\ ~fileExists(valNode.value, files)
            THEN Rejected(FileNotFoundAt, ks)
            ELSE Parsed([EmptyKubeSpec EXCEPT !.Create = valNode.value])
      [] key = "kube.apply" ->
            IF valNode.kind # "scalar" THEN Rejected(ExpectedScalarAt, ks)
            ELSE IF ~ks.nil THEN Rejected(MoreThanOneKubeActionAt, ks)
            ELSE Parsed([EmptyKubeSpec EXCEPT !.Apply = valNode.value])
      [] key = "kube.delete" ->
            IF valNode.kind \notin {"scalar", "mapping"}
            THEN Rejected(ExpectedScalarAt, ks)
            ELSE IF ~ks.nil THEN Rejected(MoreThanOneKubeActionAt, ks)
            ELSE setDelete(ResourceIdentifierOrFile(valNode, files),
                           EmptyKubeSpec)
      [] OTHER -> Parsed(ks)

\* the first loop of Spec.UnmarshalYAML
RECURSIVE shortcutFields(_, _, _, _)
shortcutNext(r, content, i, files) ==
    IF r.err # NoParseError THEN r
    ELSE shortcutFields(content, i + 1, r.v, files)

shortcutFields(content, i, ks, files) ==
    IF i > Len(content) THEN Parsed(ks)
    ELSE shortcutNext(shortcutField(content[i].key, content[i].val, ks, files),
                      content, i, files)

\* api.BaseSpecFields
BaseSpecFields == {"name", "description", "timeout", "wait", "retry", "on"}

\* s.Kube = ks after valNode.Decode(&ks)
setKube(v, ks) == IF v.err # NoParseError THEN Rejected(v.err, ks) ELSE v

\* the second switch of Spec.UnmarshalYAML; the values of var, assert and
\* require are taken to decode without error
specField(key, valNode, ks, files) ==
    CASE key = "kube" ->
            IF valNode.kind # "mapping" THEN Rejected(ExpectedMapAt, ks)
            ELSE IF ~ks.nil THEN Rejected(EitherShortcutOrKubeSpecAt, ks)
            ELSE setKube(KubeSpecUnmarshalYAML(valNode, files), ks)
      [] key \in {"var", "assert", "require"} ->
            IF valNode.kind # "mapping" THEN Rejected(ExpectedMapAt, ks)
            ELSE Parsed(ks)
      [] key \in {"kube.get", "kube.create", "kube.delete", "kube.apply"} ->
            Parsed(ks)
      [] OTHER ->
            IF key \in BaseSpecFields THEN Parsed(ks)
            ELSE Rejected(UnknownFieldAt, ks)

\* the second loop of Spec.UnmarshalYAML
RECURSIVE specFields(_, _, _, _)
specNext(r, content, i, files) ==
    IF r.err # NoParseError THEN r
    ELSE specFields(content, i + 1, r.v, files)

specFields(content, i, ks, files) ==
    IF i > Len(content) THEN Parsed(ks)
    ELSE specNext(specField(content[i].key, content[i].val, ks, files),
                  content, i, files)

\* what Spec.UnmarshalYAML returns: an error, or nil with s.Kube set
specReturned(r) ==
    IF r.err # NoParseError THEN Rejected(r.err, NilKubeSpec) ELSE r

specSecondLoop(first, node, files) ==
    IF first.err # NoParseError THEN Rejected(first.err, NilKubeSpec)
    ELSE specReturned(specFields(node.content, 1, first.v, files))

\* Spec.UnmarshalYAML: err and the Kube field of the Spec
SpecUnmarshalYAML(node, files) ==
    IF node.kind # "mapping" THEN Rejected(ExpectedMapAt, NilKubeSpec)
    ELSE specSecondLoop(shortcutFields(node.content, 1, NilKubeSpec, files),
                        node, files)

----------------------------------------------------------------------------
(* SpecParse: Spec.UnmarshalYAML applied to the mapping node of a test spec *)

MaxActions == 2     \* most fields of a long-form kube object

sPods == <<"p", "o", "d", "s">>
sManifest == <<"m", ".", "y">>
ManifestFiles == {sManifest}

NoDuplicateKeys(fs) ==
    \A i, j \in 1..Len(fs) : i # j => fs[i].key # fs[j].key

\* the fields of a long-form kube object; create may carry an empty value
KubeFields ==
    {Field("get", Scalar(sPods)), Field("create", Scalar(sManifest)),
     Field("create", Scalar(<<>>)), Field("delete", Scalar(sPods))}

KubeObjects ==
    {Mapping(fs) : fs \in {s \in SeqsUpTo(KubeFields, MaxActions) :
                              NoDuplicateKeys(s)}}

ShortcutKeys == {"kube.get", "kube.create", "kube.apply", "kube.delete"}

TopFields ==
    {Field("kube.get", Scalar(sPods)), Field("kube.create", Scalar(sManifest)),
     Field("kube.apply", Scalar(sManifest)), Field("kube.delete", Scalar(sPods)),
     Field("assert", Mapping(<<>>))}
    \cup {Field("kube", k) : k \in KubeObjects}

TestSpecs == {s \in SeqsUpTo(TopFields, MaxFields) : NoDuplicateKeys(s)}

InitParse ==
    /\ \E fs \in TestSpecs : step = Mapping(fs)
    /\ \E F \in SUBSET ManifestFiles : cluster = [files |-> F]
    /\ pc = "parse"
    /\ result = NoResult
    /\ outcome = Outcome(NilErr, NilSubject)
    /\ a = newAssertions(NilExpect, NilErr, NilSubject)
    /\ evaluated = <<>>
    /\ attempts = 0
    /\ hist = <<>>
    /\ now = 0
    /\ deadline = 0
    /\ ticker = NoTicker

\* s.UnmarshalYAML(node)
UnmarshalYAML ==
    /\ pc = "parse"
    /\ \E r \in {SpecUnmarshalYAML(step, cluster.files)} :
          /\ result' = [err |-> r.err, Kube |-> r.v]
          /\ pc' = IF r.err = NoParseError THEN "parsed" ELSE "rejected"
    /\ UNCHANGED <<step, cluster, outcome, a, evaluated, attempts, hist, now,
                   deadline, ticker>>

NextParse == UnmarshalYAML

SpecParse == InitParse /\ [][NextParse]_vars

----------------------------------------------------------------------------
(* Properties of the parser                                                *)

ParseReturned == pc \in {"parsed", "rejected"}

\* positions of the shortcut fields and of the long-form kube field
ShortcutsAt == {i \in 1..Len(step.content) : step.content[i].key \in ShortcutKeys}
KubeAt == {i \in 1..Len(step.content) : step.content[i].key = "kube"}

\* the actions a long-form kube object names: its action keys with a value
NamedIn(node) ==
    {node.content[i].key : i \in {k \in 1..Len(node.content) :
        /\ node.content[k].key \in {"get", "create", "apply", "delete"}
        /\ node.content[k].val.value # <<>>}}

LongFormNamed == UNION {NamedIn(step.content[i].val) : i \in KubeAt}

\* every manifest the test spec mentions exists
ManifestsExist == cluster.files = ManifestFiles

\* the actions set on a parsed KubeSpec
ActionsSet(ks) ==
    {f \in {"Get", "Delete"} : ~ks[f].nil}
    \cup {f \in {"Create", "Apply"} : ks[f] # <<>>}

----------------------------------------------------------------------------
(* SpecIdentifier: the parser applied to a test spec with one kube.get or   *)
(* kube.delete shortcut whose value is a resource specifier                 *)

SpecChars == {"p", "/", ".", " ", ",", ";", "\t", "\n"}

\* the strings the comment of splitArgName lists as valid
DocumentedSpecifiers ==
    {<<"p", "o", "d", "s">>,
     <<"p", "o", "d">>,
     <<"p", "o", "d", "s", "/", "n", "a", "m", "e">>,
     <<"p", "o", "d", "/", "n", "a", "m", "e">>,
     <<"d", "e", "p", "l", "o", "y", "m", "e", "n", "t", "s", ".",
       "a", "p", "p", "s", "/", "n", "a", "m", "e">>,
     <<"d", "e", "p", "l", "o", "y", "m", "e", "n", "t", "s", ".",
       "v", "1", ".", "a", "p", "p", "s", "/", "n", "a", "m", "e">>,
     <<"D", "e", "p", "l", "o", "y", "m", "e", "n", "t", "/", "n",
       "a", "m", "e">>,
     <<"D", "e", "p", "l", "o", "y", "m", "e", "n", "t", ".", "a",
       "p", "p", "s", "/", "n", "a", "m", "e">>,
     <<"D", "e", "p", "l", "o", "y", "m", "e", "n", "t", ".", "v",
       "1", ".", "a", "p", "p", "s", "/", "n", "a", "m", "e">>}

Specifiers == SeqsUpTo(SpecChars, MaxSpecLen) \cup DocumentedSpecifiers

\* the long form {type: ..., name: ...}
SelectorNodes ==
    {Mapping(<<Field("type", Scalar(t))>>) : t \in {<<"p">>, <<"p", " ">>}}
    \cup {Mapping(<<Field("name", Scalar(<<"p">>))>>),
          Mapping(<<Field("type", Scalar(<<"p">>)),
                    Field("name", Scalar(<<"p">>))>>)}

SpecifierNodes == {Scalar(s) : s \in Specifiers} \cup SelectorNodes

SpecifierFiles == {<<"p", ".", "p">>}

InitIdentifier ==
    /\ \E k \in {"kube.get", "kube.delete"} : \E n \in SpecifierNodes :
          step = Mapping(<<Field(k, n)>>)
    /\ \E F \in SUBSET SpecifierFiles : cluster = [files |-> F]
    /\ pc = "parse"
    /\ result = NoResult
    /\ outcome = Outcome(NilErr, NilSubject)
    /\ a = newAssertions(NilExpect, NilErr, NilSubject)
    /\ evaluated = <<>>
    /\ attempts = 0
    /\ hist = <<>>
    /\ now = 0
    /\ deadline = 0
    /\ ticker = NoTicker

SpecIdentifier == InitIdentifier /\ [][NextParse]_vars

----------------------------------------------------------------------------
(* Properties of the resource specifiers                                   *)

SpecifierKey == step.content[1].key
SpecifierNode == step.content[1].val

\* the identifier the parsed Spec carries
ParsedIdentifier ==
    IF SpecifierKey = "kube.get" THEN result.Kube.Get ELSE result.Kube.Delete

Whitespace == {" ", "\t", "\n", "\r"}

\* a scalar specifier the parser must refuse
Malformed(s) == ContainsAny(s, {" ", ",", ";", "\t", "\n"}) \/ Count(s, "/") > 1

SaysInvalidResourceSpecifier(err) ==
    err \in {InvalidResourceSpecifierAt, InvalidResourceSpecifierOrFilepathAt}

\* C22: every resource specifier the parser accepts has a non-empty kind
\* without whitespace and without a further '/', and a scalar get or delete
\* specifier with a space, comma, semicolon, tab or newline or with more
\* than one '/' is rejected with an "invalid resource specifier" error.
\* (A delete value the parser takes for a file path is not a specifier.)
C22_AcceptedKindWellFormed ==
    ParseReturned =>
        /\ (pc = "parsed" /\ ParsedIdentifier.fp = <<>>) =>
              /\ ParsedIdentifier.Arg # <<>>
              /\ ~ContainsAny(ParsedIdentifier.Arg, Whitespace \cup {"/"})
        /\ (/\ SpecifierNode.kind = "scalar"
            /\ Malformed(SpecifierNode.value)
            /\ ~(SpecifierKey = "kube.delete"
                 /\ probablyFilePath(SpecifierNode.value))) =>
              /\ pc = "rejected"
              /\ SaysInvalidResourceSpecifier(result.err)

\* C27: every documented resource/kind-plus-name string is accepted by the
\* get parser and by the delete parser and is split at the '/' into the
\* same (arg, name) pair.
C27_DocumentedSpecifiersAccepted ==
    (/\ ParseReturned
     /\ SpecifierNode.kind = "scalar"
     /\ SpecifierNode.value \in DocumentedSpecifiers) =>
        /\ pc = "parsed"
        /\ ParsedIdentifier =
              Identifier(<<>>, Cut(SpecifierNode.value, "/").before,
                         Cut(SpecifierNode.value, "/").after)

----------------------------------------------------------------------------
(* SpecKubeConfig: Spec.Config, which picks the kubeconfig and the context  *)
(* of a step.  step holds the Spec's Kube.Config and Kube.Context and its   *)
(* Defaults, cluster the fixtures of the context, result the client config. *)

MaxFixtures == 2    \* most fixtures registered in the context

StateKeyConfigBytes == "kube.config.bytes"
StateKeyConfig == "kube.config"
StateKeyContext == "kube.context"

\* a fixture: the state keys it has and the value it returns for each
Fixture(has, bytes, config, kctx) ==
    [has |-> has,
     state |-> [k \in {StateKeyConfigBytes, StateKeyConfig, StateKeyContext} |->
                  IF k \notin has THEN ""
                  ELSE IF k = StateKeyConfigBytes THEN bytes
                  ELSE IF k = StateKeyConfig THEN config ELSE kctx]]

\* KindFixture.HasState and KindFixture.State
KindFixture(provider, Context, ClusterName) ==
    Fixture({StateKeyConfigBytes, StateKeyContext},
            IF provider = "nil" THEN "" ELSE "fixture-bytes",
            "",
            IF Context # "" THEN Context
            ELSE IF ClusterName = "" THEN "" ELSE "fixture-ctx")

Fixtures ==
    {Fixture(h, b, c, x) :
        h \in SUBSET {StateKeyConfigBytes, StateKeyConfig, StateKeyContext},
        b \in {"", "fixture-bytes"}, c \in {"", "fixture.cfg"},
        x \in {"", "fixture-ctx"}}
    \cup {KindFixture(p, "", n) : p \in {"nil", "provider"}, n \in {"", "kind"}}

NilDefaults == [nil |-> TRUE, Config |-> "", Context |-> ""]
KubeDefaults ==
    {NilDefaults,
     [nil |-> FALSE, Config |-> "", Context |-> ""],
     [nil |-> FALSE, Config |-> "defaults.cfg", Context |-> "defaults-ctx"]}

\* the loop of Spec.Config over the fixtures
RECURSIVE fixtureState(_, _, _)
fixtureState(fixtures, i, acc) ==
    IF i > Len(fixtures) THEN acc
    ELSE LET f == fixtures[i]
             a1 == IF StateKeyConfigBytes \in f.has
                   THEN [acc EXCEPT !.fixkcfgBytes = f.state[StateKeyConfigBytes]]
                   ELSE acc
             a2 == IF StateKeyConfig \in f.has
                   THEN [a1 EXCEPT !.fixkcfgPath = f.state[StateKeyConfig]]
                   ELSE a1
             a3 == IF StateKeyContext \in f.has
                   THEN [a2 EXCEPT !.fixkctx = f.state[StateKeyContext]]
                   ELSE a2
         IN fixtureState(fixtures, i + 1, a3)

\* what client-go loads: the given bytes, the file at ExplicitPath, or the
\* ambient chain (KUBECONFIG, in-cluster, $HOME/.kube/config)
ClientConfig(from, value, kctx) ==
    [from |-> from, value |-> value, CurrentContext |-> kctx]

\* Spec.Config
Config(s, d, fixtures) ==
    LET fix == fixtureState(fixtures, 1,
                   [fixkcfgBytes |-> "", fixkcfgPath |-> "", fixkctx |-> ""])
        kcfgPath == IF s.Config # "" THEN s.Config
                    ELSE IF fix.fixkcfgPath # "" THEN fix.fixkcfgPath
                    ELSE IF ~d.nil /\ d.Config # "" THEN d.Config ELSE ""
        kctx == IF s.Context # "" THEN s.Context
                ELSE IF fix.fixkctx # "" THEN fix.fixkctx
                ELSE IF ~d.nil /\ d.Context # "" THEN d.Context ELSE ""
    IN IF fix.fixkcfgBytes # ""
       THEN ClientConfig("bytes", fix.fixkcfgBytes, kctx)
       ELSE IF kcfgPath # "" THEN ClientConfig("path", kcfgPath, kctx)
       ELSE ClientConfig("ambient", "", kctx)

InitKubeConfig ==
    /\ \E c \in {"", "spec.cfg"} : \E x \in {"", "spec-ctx"} :
       \E d \in KubeDefaults :
          step = [Kube |-> [Config |-> c, Context |-> x], Defaults |-> d]
    /\ \E fs \in SeqsUpTo(Fixtures, MaxFixtures) : cluster = [fixtures |-> fs]
    /\ pc = "config"
    /\ result = NoResult
    /\ outcome = Outcome(NilErr, NilSubject)
    /\ a = newAssertions(NilExpect, NilErr, NilSubject)
    /\ evaluated = <<>>
    /\ attempts = 0
    /\ hist = <<>>
    /\ now = 0
    /\ deadline = 0
    /\ ticker = NoTicker

\* s.Config(ctx)
KubeConfig ==
    /\ pc = "config"
    /\ result' = Config(step.Kube, step.Defaults, cluster.fixtures)
    /\ pc' = "configured"
    /\ UNCHANGED <<step, cluster, outcome, a, evaluated, attempts, hist, now,
                   deadline, ticker>>

NextKubeConfig == KubeConfig

SpecKubeConfig == InitKubeConfig /\ [][NextKubeConfig]_vars

----------------------------------------------------------------------------
(* Properties of the configuration precedence                              *)

\* the value the last fixture that has the key exposes for it
Exposed(key) ==
    LET at == {i \in 1..Len(cluster.fixtures) : key \in cluster.fixtures[i].has}
    IN IF at = {} THEN ""
       ELSE cluster.fixtures[CHOOSE i \in at : \A j \in at : j <= i].state[key]

FixtureExposesConfig ==
    Exposed(StateKeyConfig) # "" \/ Exposed(StateKeyConfigBytes) # ""

DefaultsValue(field) ==
    IF step.Defaults.nil THEN "" ELSE step.Defaults[field]

\* C23: the kubeconfig and the context of a step are the test spec's own
\* value if it has one, else the value a fixture exposes, else the value of
\* the defaults, else what the environment provides: a value of a higher
\* level is never replaced by one of a lower level.
C23_ConfigPrecedence ==
    pc = "configured" =>
        /\ result.CurrentContext =
              (IF step.Kube.Context # "" THEN step.Kube.Context
               ELSE IF Exposed(StateKeyContext) # "" THEN Exposed(StateKeyContext)
               ELSE DefaultsValue("Context"))
        /\ IF step.Kube.Config # ""
           THEN result.from = "path" /\ result.value = step.Kube.Config
           ELSE IF FixtureExposesConfig
           THEN result.value \in {Exposed(StateKeyConfig),
                                  Exposed(StateKeyConfigBytes)} \ {""}
           ELSE IF DefaultsValue("Config") # ""
           THEN result.from = "path" /\ result.value = DefaultsValue("Config")
           ELSE result.from = "ambient"

----------------------------------------------------------------------------
(* SpecKind: the KinD fixture of fixtures/kind.  step holds the modifiers   *)
(* the fixture was built with, a the KindFixture, cluster the KinD cluster  *)
(* of the fixture's name and who created it, outcome what the last Stop     *)
(* did, attempts the calls made so far.                                     *)

MaxCalls == 5       \* calls of Start and Stop and changes made by others

WithDeleteOnStop(f) == [f EXCEPT !.deleteOnStop = TRUE]
WithRetainOnStop(f) == [f EXCEPT !.retainOnStop = TRUE]

\* kind.New(mods...)
New(mods) ==
    LET f0 == [deleteOnStop |-> FALSE, retainOnStop |-> FALSE,
               runningBeforeStart |-> FALSE]
        f1 == IF "WithDeleteOnStop" \in mods THEN WithDeleteOnStop(f0) ELSE f0
    IN IF "WithRetainOnStop" \in mods THEN WithRetainOnStop(f1) ELSE f1

\* the cluster: who created it, and whether a Start has found it running
NoCluster == [running |-> FALSE, by |-> "nobody", found |-> FALSE]
ClusterBy(who) == [running |-> TRUE, by |-> who, found |-> FALSE]

\* f.isRunning()
isRunning(cl) == cl.running

\* what the last Stop did, and to which cluster
Stopped(deleted, cl) ==
    [stopped |-> TRUE, deleted |-> deleted, by |-> cl.by, found |-> cl.found]

InitKind ==
    /\ \E mods \in SUBSET {"WithDeleteOnStop", "WithRetainOnStop"} :
          step = [mods |-> mods] /\ a = New(mods)
    /\ cluster \in {NoCluster, ClusterBy("others")}
    /\ outcome = [stopped |-> FALSE, deleted |-> FALSE, by |-> "nobody",
                  found |-> FALSE]
    /\ pc = "idle"
    /\ result = NoResult
    /\ evaluated = <<>>
    /\ attempts = 0
    /\ hist = <<>>
    /\ now = 0
    /\ deadline = 0
    /\ ticker = NoTicker

\* f.Start(ctx); provider.Create may fail
Start ==
    /\ attempts < MaxCalls
    /\ attempts' = attempts + 1
    /\ IF isRunning(cluster)
       THEN /\ a' = [a EXCEPT !.runningBeforeStart = TRUE]
            /\ cluster' = [cluster EXCEPT !.found = TRUE]
       ELSE \/ /\ cluster' = ClusterBy("Start")
               /\ a' = IF ~a.retainOnStop THEN [a EXCEPT !.deleteOnStop = TRUE]
                       ELSE a
            \/ UNCHANGED <<cluster, a>>
    /\ UNCHANGED <<step, outcome, pc, result, evaluated, hist, now, deadline,
                   ticker>>

\* f.Stop(ctx)
Stop ==
    /\ attempts < MaxCalls
    /\ attempts' = attempts + 1
    /\ IF ~isRunning(cluster)
       THEN /\ outcome' = Stopped(FALSE, cluster)
            /\ UNCHANGED cluster
       ELSE IF a.runningBeforeStart /\ ~a.deleteOnStop
       THEN /\ outcome' = Stopped(FALSE, cluster)
            /\ UNCHANGED cluster
       ELSE IF a.deleteOnStop
       THEN /\ cluster' = NoCluster
            /\ outcome' = Stopped(TRUE, cluster)
       ELSE /\ outcome' = Stopped(FALSE, cluster)
            /\ UNCHANGED cluster
    /\ UNCHANGED <<step, a, pc, result, evaluated, hist, now, deadline, ticker>>

\* someone else creates a KinD cluster of the fixture's name
OthersCreate ==
    /\ attempts < MaxCalls
    /\ ~cluster.running
    /\ cluster' = ClusterBy("others")
    /\ attempts' = attempts + 1
    /\ UNCHANGED <<step, a, outcome, pc, result, evaluated, hist, now,
                   deadline, ticker>>

\* someone else deletes the cluster
OthersDelete ==
    /\ attempts < MaxCalls
    /\ cluster.running
    /\ cluster' = NoCluster
    /\ attempts' = attempts + 1
    /\ UNCHANGED <<step, a, outcome, pc, result, evaluated, hist, now,
                   deadline, ticker>>

NextKind == Start \/ Stop \/ OthersCreate \/ OthersDelete

SpecKind == InitKind /\ [][NextKind]_vars

----------------------------------------------------------------------------
(* Properties of the KinD fixture                                          *)

\* C24: whatever Start and Stop calls came before, Stop does not delete a
\* cluster of others that the last Start found running unless the fixture
\* was built WithDeleteOnStop, and Stop deletes a cluster that Start created
\* unless the fixture was built WithRetainOnStop.
C24_StopDeletesOnlyItsOwn ==
    outcome.stopped =>
        /\ (/\ outcome.by = "others"
            /\ outcome.found
            /\ "WithDeleteOnStop" \notin step.mods) => ~outcome.deleted
        /\ (/\ outcome.by = "Start"
            /\ "WithRetainOnStop" \notin step.mods) => outcome.deleted

\* C25: Stop of a fixture built WithRetainOnStop never deletes the cluster.
C25_RetainAlwaysRetains ==
    (outcome.stopped /\ "WithRetainOnStop" \in step.mods) => ~outcome.deleted

----------------------------------------------------------------------------
(* SpecDelete: Action.delete with a manifest file.  step holds the objects  *)
(* of the manifest and the namespace of the step, cluster the resources of  *)
(* the manifest's kind before and after the delete, outcome its error.      *)

MaxObjects == 2     \* most objects of a manifest

\* names of resources and of namespaces
Words == {"web", "db"}

Resource(ns, name) == [ns |-> ns, name |-> name]

\* c.client.Resource(res).Namespace(ns).Delete(ctx, name, ...)
ClientDelete(resources, ns, name) ==
    IF Resource(ns, name) \in resources
    THEN [err |-> NilErr, resources |-> resources \ {Resource(ns, name)}]
    ELSE [err |-> StatusError(StatusNotFound), resources |-> resources]

\* Action.doDelete(ctx, c, res, ns, name)
doDelete(resources, ns, name) == ClientDelete(resources, ns, name)

\* the loop of Action.delete over the objects of the manifest
RECURSIVE deleteObjects(_, _, _, _)
deleteObjects(objs, i, ns, resources) ==
    IF i > Len(objs) THEN [err |-> NilErr, resources |-> resources]
    ELSE LET name == objs[i].name
             ons == IF objs[i].namespace = "" THEN ns ELSE objs[i].namespace
             r == doDelete(resources, name, ns)
         IN IF r.err # NilErr THEN r
            ELSE deleteObjects(objs, i + 1, ns, r.resources)

Manifests ==
    SeqsUpTo({[name |-> n, namespace |-> o] : n \in Words, o \in Words \cup {""}},
             MaxObjects)

InitDelete ==
    /\ \E m \in Manifests : \E ns \in Words :
          step = [manifest |-> m, ns |-> ns]
    /\ \E rs \in SUBSET {Resource(ns, n) : ns \in Words, n \in Words} :
          cluster = [before |-> rs, resources |-> rs]
    /\ outcome = Outcome(NilErr, NilSubject)
    /\ pc = "do"
    /\ result = NoResult
    /\ a = newAssertions(NilExpect, NilErr, NilSubject)
    /\ evaluated = <<>>
    /\ attempts = 0
    /\ hist = <<>>
    /\ now = 0
    /\ deadline = 0
    /\ ticker = NoTicker

\* a.delete(ctx, c, ns) for a Delete with a file path
DeleteFile ==
    /\ pc = "do"
    /\ LET r == deleteObjects(step.manifest, 1, step.ns, cluster.resources)
       IN /\ cluster' = [cluster EXCEPT !.resources = r.resources]
          /\ outcome' = Outcome(r.err, NilSubject)
    /\ pc' = "done"
    /\ attempts' = attempts + 1
    /\ UNCHANGED <<step, a, evaluated, result, hist, now, deadline, ticker>>

NextDelete == DeleteFile

SpecDelete == InitDelete /\ [][NextDelete]_vars

----------------------------------------------------------------------------
(* Properties of the delete by manifest                                    *)

\* the resources the manifest describes: each object's name in the object's
\* own namespace, or in the namespace of the step when it declares none
Described ==
    {Resource(IF step.manifest[i].namespace = "" THEN step.ns
              ELSE step.manifest[i].namespace,
              step.manifest[i].name) : i \in 1..Len(step.manifest)}

\* C26: a delete by manifest file deletes exactly the resources the
\* manifest describes, each in its object's own namespace or in the
\* namespace of the step when the object declares none, and no other
\* resource; when it returns without error all of them are gone.
C26_DeletesTheDescribedResources ==
    pc = "done" =>
        /\ cluster.resources \subseteq cluster.before
        /\ (cluster.before \ cluster.resources) \subseteq Described
        /\ outcome.err = NilErr => cluster.resources \cap Described = {}

----------------------------------------------------------------------------
(* Runtime errors of the action                                            *)

\* the action of the current attempt has failed with a runtime error
RuntimeErrored ==
    /\ attempts >= 1
    /\ pc \in {"assert", "done", "panic"}
    /\ outcome.err = WrappedRuntimeError

\* C28: when the action fails with a runtime error (the manifest of a
\* create, apply or delete cannot be opened or decoded), Eval returns that
\* error and no Result and evaluates no assertion: the error is neither
\* turned into a failure nor swallowed by an expectation.
C28_RuntimeErrorReturned ==
    RuntimeErrored =>
        /\ pc = "done"
        /\ result = ReturnError(outcome.err)
        /\ evaluated = <<>>

----------------------------------------------------------------------------
(* SpecCleanup: Spec.Eval with the cleanup of an auto-created namespace.    *)
(* Eval is one step; the caller may evaluate a failed step again and runs   *)
(* the cleanups of the Results it was given when the step is finished.      *)
(* hist holds the cleanups handed to the caller so far.                     *)

\* ensureNamespace(ctx, c, ns): [created, err, cluster]
ensureNamespace(cl, fails) ==
    IF fails THEN [created |-> FALSE, err |-> OtherError, cluster |-> cl]
    ELSE IF ~cl.nsExists
    THEN [created |-> TRUE, err |-> NilErr,
          cluster |-> [cl EXCEPT !.nsExists = TRUE, !.autoCreated = TRUE]]
    ELSE [created |-> FALSE, err |-> NilErr, cluster |-> cl]

\* the function cleanupAutoNamespace returns, applied to the cluster
cleanupAutoNamespace(cl) == [cl EXCEPT !.nsExists = FALSE, !.autoCreated = FALSE]

\* res.AddCleanup
WithCleanups(res, cleanups) ==
    [returned |-> res.returned, err |-> res.err, failures |-> res.failures,
     cleanups |-> cleanups]

CleanupSteps ==
    {[action |-> act, exp |-> e, retry |-> NilRetry] :
        act \in Actions, e \in GetExpects}

InitCleanup ==
    /\ step \in CleanupSteps
    /\ \E c \in Clusters :
          cluster = [nsExists |-> c.nsExists, nodes |-> c.nodes,
                     pods |-> c.pods, autoCreated |-> FALSE]
    /\ pc = "eval"
    /\ outcome = [err |-> NilErr, out |-> NilSubject, nsCreated |-> FALSE]
    /\ a = newAssertions(step.exp, NilErr, NilSubject)
    /\ evaluated = <<>>
    /\ result = WithCleanups(NoResult, {})
    /\ attempts = 0
    /\ hist = {}
    /\ now = 0
    /\ deadline = 0
    /\ ticker = NoTicker

\* s.Eval(ctx)
Eval ==
    /\ pc = "eval"
    /\ attempts' = attempts + 1
    /\ \E connected \in BOOLEAN, fails \in BOOLEAN :
       \E o \in DoOutcomes(step.action) :
          IF ~connected
          THEN /\ result' = WithCleanups(ReturnError(ConnectError), {})
               /\ pc' = "returned"
               /\ UNCHANGED <<cluster, outcome, a, hist>>
          ELSE LET ns == ensureNamespace(cluster, fails)
                   st == OK(newAssertions(step.exp, o.err, o.out), ns.cluster)
               IN /\ cluster' = ns.cluster
                  /\ IF ns.err # NilErr
                     THEN /\ result' = WithCleanups(ReturnError(ns.err), {})
                          /\ pc' = "returned"
                          /\ UNCHANGED <<outcome, a, hist>>
                     ELSE /\ outcome' = [err |-> o.err, out |-> o.out,
                                         nsCreated |-> ns.created]
                          /\ IF o.err = ErrTimeoutExceeded
                             THEN /\ result' = WithCleanups(
                                        ReturnResult(<<TimeoutFailure>>), {})
                                  /\ pc' = "returned"
                                  /\ UNCHANGED <<a, hist>>
                             ELSE IF o.err = RuntimeError
                             THEN /\ result' = WithCleanups(ReturnError(o.err), {})
                                  /\ pc' = "returned"
                                  /\ UNCHANGED <<a, hist>>
                             ELSE /\ a' = st.a
                                  /\ IF st.panic
                                     THEN pc' = "panic" /\ UNCHANGED <<result, hist>>
                                     ELSE IF st.ok
                                     THEN /\ result' = WithCleanups(
                                                ReturnResult(<<>>),
                                                IF ns.created THEN {sNs} ELSE {})
                                          /\ hist' = hist \cup
                                                (IF ns.created THEN {sNs} ELSE {})
                                          /\ pc' = "returned"
                                     ELSE /\ result' = WithCleanups(
                                                ReturnResult(st.a.failures), {})
                                          /\ pc' = "returned"
                                          /\ UNCHANGED hist
    /\ UNCHANGED <<step, evaluated, now, deadline, ticker>>

\* the caller evaluates a step that failed once more
EvalAgain ==
    /\ pc = "returned"
    /\ result.err = NilErr /\ result.failures # <<>>
    /\ attempts < MaxAttempts
    /\ pc' = "eval"
    /\ UNCHANGED <<step, cluster, outcome, a, evaluated, result, attempts, hist,
                   now, deadline, ticker>>

\* the caller runs the cleanups of the Results it was given
RunCleanups ==
    /\ pc = "returned"
    /\ cluster' = IF sNs \in hist THEN cleanupAutoNamespace(cluster) ELSE cluster
    /\ pc' = "cleaned"
    /\ UNCHANGED <<step, outcome, a, evaluated, result, attempts, hist, now,
                   deadline, ticker>>

NextCleanup == Eval \/ EvalAgain \/ RunCleanups

SpecCleanup == InitCleanup /\ [][NextCleanup]_vars

----------------------------------------------------------------------------
(* Properties of the namespace cleanup                                     *)

\* C29: whenever a call of Eval auto-creates the namespace of the step, the
\* Result it returns carries a cleanup that deletes the namespace, whether
\* the assertions passed or failed; so after the step is finished, retried
\* or not, and the cleanups have run, no auto-created namespace is left.
C29_AutoNamespaceCleanedUp ==
    /\ (/\ pc = "returned"
        /\ outcome.nsCreated
        /\ result.returned /\ result.err = NilErr) => sNs \in result.cleanups
    /\ pc = "cleaned" => ~(cluster.nsExists /\ cluster.autoCreated)

----------------------------------------------------------------------------
(* SpecResolve: the resolution of a kind to a resource by the connection's *)
(* RESTMapper, as Action.get runs it, and the check of the error it gives.  *)
(* cluster holds the answers of the RESTMapper; pc is "get", then "assert", *)
(* then "done".                                                             *)

\* what RESTMapper.RESTMapping answers
MappingFound == [kind |-> "nil", code |-> 0, text |-> <<"m", "a", "p">>]
\* *meta.NoKindMatchError: the server has no such kind
NoKindMatchError == [kind |-> "nomatch", code |-> 0, text |-> <<"n", "o", "m">>]
\* any other failure of the mapper: discovery could not be done
DiscoveryFailed == [kind |-> "other", code |-> 0, text |-> <<"d", "i", "s">>]
\* "the server doesn't have a resource type ..."
NoResourceType == [kind |-> "other", code |-> 0, text |-> <<"t", "y", "p">>]

MappingAnswers == {MappingFound, NoKindMatchError, DiscoveryFailed}

\* meta.IsNoMatchError
IsNoMatchError(err) == err.kind = "nomatch"

\* the error of a RESTMapping answer, nil when a mapping was found
MappingErr(ans) == IF ans = MappingFound THEN NilErr ELSE ans

\* a RESTMapper: whether KindFor knows the argument as a resource, and what
\* RESTMapping answers for the kind KindFor gave, for the argument taken as
\* a kind, and for the bare group and kind
RESTMappers ==
    [kindFor : BOOLEAN, ofResource : MappingAnswers, ofKind : MappingAnswers,
     ofGroupKind : MappingAnswers]

\* connection.mappingFor: the error it returns, nil with a mapping
mappingFor(mapper) ==
    IF mapper.kindFor THEN MappingErr(mapper.ofResource)
    ELSE IF mapper.ofKind = MappingFound THEN NilErr
    ELSE IF mapper.ofGroupKind # MappingFound
    THEN IF IsNoMatchError(mapper.ofGroupKind)
         THEN NoResourceType
         ELSE mapper.ofGroupKind
    ELSE NilErr

\* connection.gvrFromGVK: the error it returns, nil with a resource
gvrFromGVK(mapper) ==
    IF mappingFor(mapper) # NilErr THEN ResourceUnknown ELSE NilErr

\* what the client call of Action.get gives once the kind is resolved
clientGetOutcomes(act) ==
    {Outcome(e, NilSubject) : e \in ClientErrors}
    \cup IF act.named
         THEN {Outcome(NilErr, ObjSubject(d)) : d \in Docs}
         ELSE {Outcome(NilErr, ListSubject(n)) : n \in 0..MaxItems}

ResolveClusters ==
    {[nsExists |-> TRUE, nodes |-> c.nodes, pods |-> c.pods, mapper |-> m] :
        c \in {cl \in Clusters : cl.nsExists /\ cl.pods = {PodOn("p1", "n1"), PodOn("p2", "n2")}},
        m \in RESTMappers}

InitResolve ==
    /\ step \in GetSteps
    /\ cluster \in ResolveClusters
    /\ pc = "get"
    /\ outcome = Outcome(NilErr, NilSubject)
    /\ a = newAssertions(step.exp, NilErr, NilSubject)
    /\ evaluated = <<>>
    /\ result = NoResult
    /\ attempts = 0
    /\ hist = <<>>
    /\ now = 0
    /\ deadline = 0
    /\ ticker = NoTicker

\* Action.get: resolve the kind, return the error of the resolution, else
\* call the client
get ==
    /\ pc = "get"
    /\ \E err \in {gvrFromGVK(cluster.mapper)} :
          IF err # NilErr
          THEN outcome' = Outcome(err, NilSubject)
          ELSE outcome' \in clientGetOutcomes(step.action)
    /\ attempts' = attempts + 1
    /\ pc' = "assert"
    /\ UNCHANGED <<step, cluster, a, evaluated, result, hist, now, deadline,
                   ticker>>

\* the assertions on what get gave, and the Result of the step
AssertGet ==
    /\ pc = "assert"
    /\ \E st \in {OK(newAssertions(step.exp, outcome.err, outcome.out), cluster)} :
          /\ a' = st.a
          /\ IF st.panic
             THEN pc' = "panic" /\ UNCHANGED result
             ELSE pc' = "done" /\ result' = ReturnResult(st.a.failures)
    /\ UNCHANGED <<step, cluster, outcome, evaluated, attempts, hist, now,
                   deadline, ticker>>

NextResolve == get \/ AssertGet

SpecResolve == InitResolve /\ [][NextResolve]_vars

----------------------------------------------------------------------------
(* Properties of the resolution of a kind                                  *)

\* the RESTMapper found nothing for the argument, resource or kind
ServerHasNoType(mapper) ==
    IF mapper.kindFor THEN IsNoMatchError(mapper.ofResource)
    ELSE /\ mapper.ofKind # MappingFound
         /\ IsNoMatchError(mapper.ofGroupKind)

\* the failure of the mapper that is not a missing kind, nil when none
OtherMappingFailure(mapper) ==
    IF mapper.kindFor
    THEN IF mapper.ofResource = DiscoveryFailed THEN DiscoveryFailed ELSE NilErr
    ELSE IF mapper.ofKind # MappingFound /\ mapper.ofGroupKind = DiscoveryFailed
         THEN DiscoveryFailed ELSE NilErr

\* a step expecting unknown: true has passed on a failure of discovery
DiscoveryFailureSwallowed ==
    /\ pc = "done"
    /\ OtherMappingFailure(cluster.mapper) # NilErr
    /\ step.exp.Unknown
    /\ ResultPassed(result)

\* C30: get reports ResourceUnknown only when the server has no resource
\* type for the kind; a discovery or mapping failure of another sort is
\* what get returns, unchanged, and a step that expects unknown: true does
\* not pass on it.
C30_UnknownOnlyWhenNoType ==
    pc \in {"assert", "done"} =>
        /\ IsResourceUnknown(outcome.err) => ServerHasNoType(cluster.mapper)
        /\ OtherMappingFailure(cluster.mapper) # NilErr =>
              /\ outcome.err = OtherMappingFailure(cluster.mapper)
              /\ pc = "done" => ~ResultPassed(result)

====
